---- MODULE Spec2Model ----
(***************************************************************************)
(* Model of cmd_nlp.py: the natural-language to CMD/PowerShell command     *)
(* translator.  Text is kept as TLA+ strings; s[i] of the Python source is *)
(* At(s, i) here (1-based).  Regular expressions are compiled from their   *)
(* pattern strings into trees and matched with the priority order of a     *)
(* backtracking matcher, as Python's re module does.                       *)
(***************************************************************************)
EXTENDS Integers, Sequences, FiniteSets, TLC

(***************************************************************************)
(* Strings                                                                 *)
(***************************************************************************)
At(s, i) == IF i >= 1 /\ i <= Len(s) THEN SubSeq(s, i, i) ELSE ""

\* str.lower() and str.upper() of one character (ASCII letters)
ToLower ==
    [A |-> "a", B |-> "b", C |-> "c", D |-> "d", E |-> "e", F |-> "f", G |-> "g",
     H |-> "h", I |-> "i", J |-> "j", K |-> "k", L |-> "l", M |-> "m", N |-> "n",
     O |-> "o", P |-> "p", Q |-> "q", R |-> "r", S |-> "s", T |-> "t", U |-> "u",
     V |-> "v", W |-> "w", X |-> "x", Y |-> "y", Z |-> "z"]

ToUpper ==
    [a |-> "A", b |-> "B", c |-> "C", d |-> "D", e |-> "E", f |-> "F", g |-> "G",
     h |-> "H", i |-> "I", j |-> "J", k |-> "K", l |-> "L", m |-> "M", n |-> "N",
     o |-> "O", p |-> "P", q |-> "Q", r |-> "R", s |-> "S", t |-> "T", u |-> "U",
     v |-> "V", w |-> "W", x |-> "X", y |-> "Y", z |-> "Z"]

IsLetter(c) == c \in DOMAIN ToLower \/ c \in DOMAIN ToUpper

LowerChar(c) == IF c \in DOMAIN ToLower THEN ToLower[c] ELSE c

UpperChar(c) == IF c \in DOMAIN ToUpper THEN ToUpper[c] ELSE c

\* str.lower()
RECURSIVE lower(_)
lower(s) == IF s = "" THEN "" ELSE LowerChar(Head(s)) \o lower(Tail(s))

Whitespace == {" ", "\t", "\n", "\r"}

RECURSIVE lstrip(_)
lstrip(s) == IF s # "" /\ Head(s) \in Whitespace THEN lstrip(Tail(s)) ELSE s

RECURSIVE rstrip(_)
rstrip(s) ==
    IF s # "" /\ At(s, Len(s)) \in Whitespace
    THEN rstrip(SubSeq(s, 1, Len(s) - 1))
    ELSE s

\* str.strip()
strip(s) == rstrip(lstrip(s))

\* str.title(): a letter that follows a letter is lower-cased, any other
\* letter is upper-cased.
RECURSIVE title_from(_, _)
title_from(s, prevCased) ==
    IF s = "" THEN ""
    ELSE LET c == Head(s) IN
         (IF prevCased THEN LowerChar(c) ELSE UpperChar(c))
            \o title_from(Tail(s), IsLetter(c))

title(s) == title_from(s, FALSE)

\* "needle in s" at position i
StartsAt(s, i, needle) ==
    /\ i + Len(needle) - 1 <= Len(s)
    /\ SubSeq(s, i, i + Len(needle) - 1) = needle

Contains(s, needle) == \E i \in 1..(Len(s) + 1) : StartsAt(s, i, needle)

\* str.replace(old, new) for a non-empty old: every non-overlapping
\* occurrence, left to right; the inserted text is not rescanned.
RECURSIVE replace_from(_, _, _, _)
replace_from(s, i, old, new) ==
    IF i > Len(s) THEN ""
    ELSE IF StartsAt(s, i, old)
         THEN new \o replace_from(s, i + Len(old), old, new)
         ELSE At(s, i) \o replace_from(s, i + 1, old, new)

replace(s, old, new) == replace_from(s, 1, old, new)

(***************************************************************************)
(* re.compile: the pattern syntax the rule table and the configuration     *)
(* entries use: literals, . ^ $, the greedy quantifiers + * ?, alternation,*)
(* capturing groups (...) and non-capturing groups (?:...).  With          *)
(* re.IGNORECASE the literals are case-folded when the pattern is compiled *)
(* and the text is case-folded character by character when matched.        *)
(***************************************************************************)
Node(t, c, g, kids) == [t |-> t, c |-> c, g |-> g, kids |-> kids]

ReError == [ok |-> FALSE, node |-> Node("fail", "", 0, <<>>), i |-> 0, g |-> 0]

Parsed(node, i, g) == [ok |-> TRUE, node |-> node, i |-> i, g |-> g]

RECURSIVE parse_alt(_, _, _)
RECURSIVE parse_alt_rest(_, _, _, _)
RECURSIVE parse_cat(_, _, _, _)

parse_atom(p, i, g) ==
    LET ch == At(p, i)
        Close(r, node) ==
            IF r.ok /\ At(p, r.i) = ")" THEN Parsed(node, r.i + 1, r.g) ELSE ReError
        NonCapturing(r) == Close(r, r.node)
        Capturing(r) == Close(r, Node("grp", "", g + 1, <<r.node>>))
    IN
    CASE ch = "(" ->
            IF StartsAt(p, i + 1, "?:")
            THEN NonCapturing(parse_alt(p, i + 3, g))
            ELSE Capturing(parse_alt(p, i + 1, g + 1))
      [] ch = "." -> Parsed(Node("any", "", 0, <<>>), i + 1, g)
      [] ch = "^" -> Parsed(Node("bol", "", 0, <<>>), i + 1, g)
      [] ch = "$" -> Parsed(Node("eol", "", 0, <<>>), i + 1, g)
      [] ch = "\\" ->
            IF i + 1 <= Len(p)
            THEN Parsed(Node("lit", LowerChar(At(p, i + 1)), 0, <<>>), i + 2, g)
            ELSE ReError
      [] ch \in {"*", "+", "?", ""} -> ReError
      [] OTHER -> Parsed(Node("lit", LowerChar(ch), 0, <<>>), i + 1, g)

\* the atom a with the quantifier that follows it, if any
Quantified(p, a) ==
    IF ~a.ok THEN ReError
    ELSE LET q == At(p, a.i) IN
         IF q \in {"*", "+", "?"}
         THEN IF At(p, a.i + 1) \in {"*", "+", "?"} \/ a.node.t \in {"bol", "eol"}
              THEN ReError
              ELSE Parsed(Node(IF q = "*" THEN "star" ELSE IF q = "+" THEN "plus" ELSE "opt",
                               "", 0, <<a.node>>), a.i + 1, a.g)
         ELSE a

parse_piece(p, i, g) == Quantified(p, parse_atom(p, i, g))

\* a literal that follows a literal extends it: "lit" nodes hold whole strings
AppendPiece(acc, node) ==
    IF acc # <<>> /\ node.t = "lit" /\ acc[Len(acc)].t = "lit"
    THEN [acc EXCEPT ![Len(acc)].c = @ \o node.c]
    ELSE Append(acc, node)

parse_cat(p, i, g, acc) ==
    LET Then(r) ==
            IF r.ok THEN parse_cat(p, r.i, r.g, AppendPiece(acc, r.node)) ELSE ReError
    IN IF i > Len(p) \/ At(p, i) \in {")", "|"}
       THEN Parsed(Node("cat", "", 0, acc), i, g)
       ELSE Then(parse_piece(p, i, g))

parse_alt_rest(p, i, g, acc) ==
    LET Then(r) ==
            IF r.ok THEN parse_alt_rest(p, r.i, r.g, Append(acc, r.node)) ELSE ReError
    IN IF At(p, i) = "|"
       THEN Then(parse_cat(p, i + 1, g, <<>>))
       ELSE Parsed(IF Len(acc) = 1 THEN acc[1] ELSE Node("alt", "", 0, acc), i, g)

parse_alt(p, i, g) ==
    LET Then(r) == IF r.ok THEN parse_alt_rest(p, r.i, r.g, <<r.node>>) ELSE ReError
    IN Then(parse_cat(p, i, g, <<>>))

\* the whole pattern has to be consumed
Whole(p, r) ==
    IF r.ok /\ r.i = Len(p) + 1
    THEN [ok |-> TRUE, node |-> r.node, groups |-> r.g]
    ELSE [ok |-> FALSE, node |-> ReError.node, groups |-> 0]

\* re.compile(pattern, re.IGNORECASE): ok = FALSE stands for re.error
re_compile(p) == Whole(p, parse_alt(p, 1, 0))

(***************************************************************************)
(* Pattern.match: every way the tree matches s from position i, in the     *)
(* matcher's priority order; the match object is the first of them.        *)
(* A group that took no part in the match has the span <<0, 0>>.  An       *)
(* iteration of a repeat that consumed nothing ends the repeat.            *)
(***************************************************************************)
NoSpan == <<0, 0>>

Result(pos, spans, last) == [pos |-> pos, spans |-> spans, last |-> last]

RECURSIVE m_node(_, _, _, _)
RECURSIVE m_cat(_, _, _, _, _)
RECURSIVE m_cat_each(_, _, _, _, _)
RECURSIVE m_alt(_, _, _, _, _)
RECURSIVE m_star(_, _, _, _)
RECURSIVE m_star_each(_, _, _, _, _)
RECURSIVE m_grp_each(_, _, _, _)

m_cat(kids, k, s, i, st) ==
    IF k > Len(kids) THEN <<Result(i, st.spans, st.last)>>
    ELSE m_cat_each(kids, k, s, m_node(kids[k], s, i, st), 1)

m_cat_each(kids, k, s, rs, j) ==
    IF j > Len(rs) THEN <<>>
    ELSE m_cat(kids, k + 1, s, rs[j].pos, rs[j]) \o m_cat_each(kids, k, s, rs, j + 1)

m_alt(kids, k, s, i, st) ==
    IF k > Len(kids) THEN <<>>
    ELSE m_node(kids[k], s, i, st) \o m_alt(kids, k + 1, s, i, st)

m_star(kid, s, i, st) ==
    m_star_each(kid, s, i, m_node(kid, s, i, st), 1) \o <<Result(i, st.spans, st.last)>>

m_star_each(kid, s, i, rs, j) ==
    IF j > Len(rs) THEN <<>>
    ELSE (IF rs[j].pos > i THEN m_star(kid, s, rs[j].pos, rs[j]) ELSE <<rs[j]>>)
            \o m_star_each(kid, s, i, rs, j + 1)

m_grp_each(g, i, rs, j) ==
    IF j > Len(rs) THEN <<>>
    ELSE <<Result(rs[j].pos, [rs[j].spans EXCEPT ![g] = <<i, rs[j].pos>>], g)>>
            \o m_grp_each(g, i, rs, j + 1)

\* the literal lit, from its k-th character on, is at position i of s
RECURSIVE m_lit(_, _, _, _)
m_lit(lit, k, s, i) ==
    \/ k > Len(lit)
    \/ /\ i <= Len(s)
       /\ LowerChar(At(s, i)) = At(lit, k)
       /\ m_lit(lit, k + 1, s, i + 1)

m_plus_each(kid, s, rs) ==
    LET RECURSIVE each(_)
        each(j) == IF j > Len(rs) THEN <<>>
                   ELSE m_star(kid, s, rs[j].pos, rs[j]) \o each(j + 1)
    IN each(1)

m_node(n, s, i, st) ==
    CASE n.t = "lit" ->
            IF m_lit(n.c, 1, s, i)
            THEN <<Result(i + Len(n.c), st.spans, st.last)>> ELSE <<>>
      [] n.t = "any" ->
            IF i <= Len(s) /\ At(s, i) # "\n"
            THEN <<Result(i + 1, st.spans, st.last)>> ELSE <<>>
      [] n.t = "bol" -> IF i = 1 THEN <<Result(i, st.spans, st.last)>> ELSE <<>>
      [] n.t = "eol" ->
            IF i = Len(s) + 1 \/ (i = Len(s) /\ At(s, i) = "\n")
            THEN <<Result(i, st.spans, st.last)>> ELSE <<>>
      [] n.t = "cat" -> m_cat(n.kids, 1, s, i, st)
      [] n.t = "alt" -> m_alt(n.kids, 1, s, i, st)
      [] n.t = "grp" -> m_grp_each(n.g, i, m_node(n.kids[1], s, i, st), 1)
      [] n.t = "opt" -> m_node(n.kids[1], s, i, st) \o <<Result(i, st.spans, st.last)>>
      [] n.t = "star" -> m_star(n.kids[1], s, i, st)
      [] n.t = "plus" -> m_plus_each(n.kids[1], s, m_node(n.kids[1], s, i, st))
      [] OTHER -> <<>>

NoMatch == [matched |-> FALSE, text |-> "", spans |-> <<>>, lastindex |-> 0]

\* the match object for the results rs of the matcher: the first of them
MatchObject(text, rs) ==
    IF rs = <<>> THEN NoMatch
    ELSE [matched |-> TRUE, text |-> text, spans |-> rs[1].spans, lastindex |-> rs[1].last]

\* re.Pattern.match(text): anchored at the start, need not reach the end
re_match(compiled, text) ==
    MatchObject(text, m_node(compiled.node, text, 1,
                             Result(1, [g \in 1..compiled.groups |-> NoSpan], 0)))

\* match.group(g) of a group that took part in the match
group(m, g) == SubSeq(m.text, m.spans[g][1], m.spans[g][2] - 1)

GroupIsNone(m, g) == m.spans[g] = NoSpan

(***************************************************************************)
(* Generators.  A built-in generator is a lambda over the match object: an *)
(* f-string of literal pieces and m.group(g) values, or a dictionary       *)
(* lookup; a custom generator substitutes the groups into a template.      *)
(* Evaluating one yields [ok, value]; ok = FALSE stands for a raised       *)
(* exception.                                                              *)
(***************************************************************************)
Digits == "0123456789"

\* str(i) for i >= 0
RECURSIVE IntToStr(_)
IntToStr(i) == IF i < 10 THEN At(Digits, i + 1) ELSE IntToStr(i \div 10) \o At(Digits, (i % 10) + 1)

Part(k, s, g) == [k |-> k, s |-> s, g |-> g]

\* a literal piece of an f-string
L(s) == Part("lit", s, 0)

\* {m.group(g)}
G(g) == Part("group", "", g)

\* {m.group(g).strip()}
GS(g) == Part("strip", "", g)

\* {m.group(g).strip().title()}
GT(g) == Part("strip_title", "", g)

Generator(kind, parts, g, keys, vals, default, template) ==
    [kind |-> kind, parts |-> parts, g |-> g, keys |-> keys, vals |-> vals,
     default |-> default, template |-> template]

\* lambda m: f"..."
Fmt(parts) == Generator("fstring", parts, 0, <<>>, <<>>, "", "")

\* lambda m: {keys[i]: vals[i], ...}.get(m.group(g).lower(), default)
DictGet(g, keys, vals, default) == Generator("dict", <<>>, g, keys, vals, default, "")

\* lambda m: self._substitute_groups(template, m)
Template(template) == Generator("template", <<>>, 0, <<>>, <<>>, "", template)

Raised == [ok |-> FALSE, value |-> ""]

Value(v) == [ok |-> TRUE, value |-> v]

HasGroup(m, g) == g \in DOMAIN m.spans

eval_part(p, m) ==
    CASE p.k = "lit" -> Value(p.s)
      [] p.k = "group" ->
            IF ~HasGroup(m, p.g) THEN Raised
            ELSE IF GroupIsNone(m, p.g) THEN Value("None")
            ELSE Value(group(m, p.g))
      [] p.k = "strip" ->
            IF ~HasGroup(m, p.g) \/ GroupIsNone(m, p.g) THEN Raised
            ELSE Value(strip(group(m, p.g)))
      [] p.k = "strip_title" ->
            IF ~HasGroup(m, p.g) \/ GroupIsNone(m, p.g) THEN Raised
            ELSE Value(title(strip(group(m, p.g))))
      [] OTHER -> Raised

RECURSIVE eval_fstring(_, _, _)
eval_fstring(parts, k, m) ==
    LET Joined(a, b) == IF a.ok /\ b.ok THEN Value(a.value \o b.value) ELSE Raised
    IN IF k > Len(parts) THEN Value("")
       ELSE Joined(eval_part(parts[k], m), eval_fstring(parts, k + 1, m))

eval_dict(gen, m) ==
    LET Lookup(key) ==
            IF \E i \in 1..Len(gen.keys) : gen.keys[i] = key
            THEN Value(gen.vals[CHOOSE i \in 1..Len(gen.keys) : gen.keys[i] = key])
            ELSE Value(gen.default)
    IN IF ~HasGroup(m, gen.g) \/ GroupIsNone(m, gen.g) THEN Raised
       ELSE Lookup(lower(group(m, gen.g)))

\* _substitute_groups, the loop from group i on
RECURSIVE substitute_from(_, _, _)
substitute_from(result, i, m) ==
    LET Substituted(placeholder) ==
            IF Contains(result, placeholder)
            THEN IF GroupIsNone(m, i) THEN Raised
                 ELSE substitute_from(replace(result, placeholder, group(m, i)), i + 1, m)
            ELSE substitute_from(result, i + 1, m)
    IN IF i > m.lastindex THEN Value(result)
       ELSE Substituted("{" \o IntToStr(i) \o "}")

substitute_groups(template, m) == substitute_from(template, 1, m)

generate(gen, m) ==
    CASE gen.kind = "fstring" -> eval_fstring(gen.parts, 1, m)
      [] gen.kind = "dict" -> eval_dict(gen, m)
      [] gen.kind = "template" -> substitute_groups(gen.template, m)
      [] OTHER -> Raised

(***************************************************************************)
(* CommandPattern                                                          *)
(***************************************************************************)
CMD == "cmd"

POWERSHELL == "powershell"

Shells == <<CMD, POWERSHELL>>

(***************************************************************************)
(* The texts the operations are called with.  A compiled pattern object is *)
(* kept in a rule as its pattern string together with what matching it     *)
(* yields on each of these texts, trimmed (the texts it does not match are *)
(* left out), worked out when the rule is constructed.                     *)
(***************************************************************************)
Inputs ==
    {"go to downloads", "go back", "show current directory", "where am i",
     "list files", "list files sorted by size", "list files sorted by name",
     "list files sort by DATE", "list files sorted by colour", "list filesystem",
     "create folder my-project", "create directory test",
     "delete file readme.txt", "delete folder old-stuff", "delete the file a b",
     "open notepad", "clear", "cleaner", "show disk space", "show ip address",
     "show my ip", "show date", "show time", "find files containing config",
     "find text error in files", "copy file1.txt to backup",
     "move file.txt to archive", "show running processes",
     "kill process notepad", "kill notepad", "set variable PATH to C:\\bin",
     "show variable PATH", "ping google.com", "trace route to google.com",
     "read file readme.txt", "edit file config.txt",
     "show file attributes readme.txt", "show file readme.txt",
     "hide file secret.txt", "show hidden files",
     "ls", "LS", "lsx", "ls -la", "xls", "pwd", "pwdx", "gci", "gcix", "gl", "glx",
     "mkdir testdir", "rm file.txt", "rm a\nb", "delete file test.txt",
     "", " ", "\t\n", "go to", "xyz123", "delete file",
     "  Go To  my docs ", " ls ", "ls\n",
     "greet world", "sel", "select", "xz", "xyz", "xq",
     "list stuff", "a and b", "{2} and x", "exit now"}

Texts == {strip(t) : t \in Inputs}

\* a function over a finite domain as an explicit table
Tabulated(f) == f @@ <<>>

\* re.compile(pattern, re.IGNORECASE) in CommandPattern.__init__ (line 38)
Compile(pattern) ==
    LET Matching(all) == [t \in {u \in Texts : all[u].matched} |-> all[t]]
        Table(c) == Matching([t \in Texts |-> re_match(c, t)])
    IN [source |-> pattern, matches |-> Tabulated(Table(re_compile(pattern)))]

\* CommandPattern.__init__ (lines 36-51), called with a dict of generators
CommandPattern(pattern, generators, description, safe, category) ==
    [pattern |-> Compile(pattern), generators |-> generators, description |-> description,
     safe |-> safe, category |-> category]

\* _setup_navigation_patterns (lines 141-182)
setup_navigation_patterns ==
  <<
    CommandPattern("go to (.+)",
        [cmd |-> Fmt(<<L("cd "), GT(1)>>),
         powershell |-> Fmt(<<L("Set-Location -Path '"), GS(1), L("'")>>)],
        "Change directory", TRUE, "navigation"),
    CommandPattern("go back",
        [cmd |-> Fmt(<<L("cd ..")>>),
         powershell |-> Fmt(<<L("Set-Location ..")>>)],
        "Go to parent directory", TRUE, "navigation"),
    CommandPattern("show (current directory|current path)",
        [cmd |-> Fmt(<<L("cd")>>),
         powershell |-> Fmt(<<L("Get-Location")>>)],
        "Show current directory", TRUE, "navigation"),
    CommandPattern("where am i",
        [cmd |-> Fmt(<<L("cd")>>),
         powershell |-> Fmt(<<L("Get-Location")>>)],
        "Show current directory", TRUE, "navigation")
  >>

\* _setup_file_operation_patterns (lines 184-270)
setup_file_operation_patterns ==
  <<
    CommandPattern("list files (?:sorted|sort) by (size|name|date)",
        [cmd |-> DictGet(1, <<"size", "name", "date">>,
                <<"dir /O-S", "dir /O-N", "dir /O-D">>,
                "dir"),
         powershell |-> DictGet(1, <<"size", "name", "date">>,
                <<"Get-ChildItem | Sort-Object Length -Descending", "Get-ChildItem | Sort-Object Name", "Get-ChildItem | Sort-Object LastWriteTime -Descending">>,
                "Get-ChildItem")],
        "List files sorted", TRUE, "files"),
    CommandPattern("list files",
        [cmd |-> Fmt(<<L("dir")>>),
         powershell |-> Fmt(<<L("Get-ChildItem")>>)],
        "List files", TRUE, "files"),
    CommandPattern("create (folder|directory) (.+)",
        [cmd |-> Fmt(<<L("mkdir "), GS(2)>>),
         powershell |-> Fmt(<<L("New-Item -ItemType Directory -Path '"), GS(2), L("'")>>)],
        "Create directory", TRUE, "files"),
    CommandPattern("delete (?:the )?file (.+)",
        [cmd |-> Fmt(<<L("del \""), GS(1), L("\"")>>),
         powershell |-> Fmt(<<L("Remove-Item -Path '"), GS(1), L("' -Force")>>)],
        "Delete file", FALSE, "files"),
    CommandPattern("delete (?:the )?(folder|directory) (.+)",
        [cmd |-> Fmt(<<L("rmdir /s /q \""), GS(2), L("\"")>>),
         powershell |-> Fmt(<<L("Remove-Item -Path '"), GS(2), L("' -Recurse -Force")>>)],
        "Delete directory", FALSE, "files"),
    CommandPattern("copy (.+) (?:to|into) (.+)",
        [cmd |-> Fmt(<<L("copy \""), GS(1), L("\" \""), GS(2), L("\"")>>),
         powershell |-> Fmt(<<L("Copy-Item -Path '"), GS(1), L("' -Destination '"), GS(2), L("'")>>)],
        "Copy file", TRUE, "files"),
    CommandPattern("move (.+) (?:to|into) (.+)",
        [cmd |-> Fmt(<<L("move \""), GS(1), L("\" \""), GS(2), L("\"")>>),
         powershell |-> Fmt(<<L("Move-Item -Path '"), GS(1), L("' -Destination '"), GS(2), L("'")>>)],
        "Move file", FALSE, "files")
  >>

\* _setup_system_patterns (lines 272-343)
setup_system_patterns ==
  <<
    CommandPattern("open (.+)",
        [cmd |-> Fmt(<<L("start "), GS(1)>>),
         powershell |-> Fmt(<<L("Start-Process '"), GS(1), L("'")>>)],
        "Open program", TRUE, "system"),
    CommandPattern("clear|clean",
        [cmd |-> Fmt(<<L("cls")>>),
         powershell |-> Fmt(<<L("Clear-Host")>>)],
        "Clear screen", TRUE, "system"),
    CommandPattern("show disk space",
        [cmd |-> Fmt(<<L("wmic logicaldisk get size,freespace,caption")>>),
         powershell |-> Fmt(<<L("Get-PSDrive -PSProvider FileSystem | Select-Object Name, @{N='Used(GB)';E={[math]::Round($_.Used/1GB,2)}}, @{N='Free(GB)';E={[math]::Round($_.Free/1GB,2)}}")>>)],
        "Show disk space", TRUE, "system"),
    CommandPattern("show ip address",
        [cmd |-> Fmt(<<L("ipconfig")>>),
         powershell |-> Fmt(<<L("Get-NetIPAddress -AddressFamily IPv4 | Where-Object {$_.InterfaceAlias -notlike '*Loopback*'}")>>)],
        "Show IP address", TRUE, "system"),
    CommandPattern("show my ip",
        [cmd |-> Fmt(<<L("ipconfig")>>),
         powershell |-> Fmt(<<L("Get-NetIPAddress -AddressFamily IPv4 | Where-Object {$_.InterfaceAlias -notlike '*Loopback*'}")>>)],
        "Show IP address", TRUE, "system"),
    CommandPattern("show date",
        [cmd |-> Fmt(<<L("date /t")>>),
         powershell |-> Fmt(<<L("Get-Date -Format 'yyyy-MM-dd'")>>)],
        "Show current date", TRUE, "system"),
    CommandPattern("show time",
        [cmd |-> Fmt(<<L("time /t")>>),
         powershell |-> Fmt(<<L("Get-Date -Format 'HH:mm:ss'")>>)],
        "Show current time", TRUE, "system")
  >>

\* _setup_search_patterns (lines 345-366)
setup_search_patterns ==
  <<
    CommandPattern("find files (?:named|containing|with) (.+)",
        [cmd |-> Fmt(<<L("dir /s /b | findstr /i \""), GS(1), L("\"")>>),
         powershell |-> Fmt(<<L("Get-ChildItem -Recurse -Filter '*"), GS(1), L("*' | Select-Object FullName")>>)],
        "Find files by name", TRUE, "search"),
    CommandPattern("find text (.+) (?:in|within) files",
        [cmd |-> Fmt(<<L("findstr /s /i \""), GS(1), L("\" *.*")>>),
         powershell |-> Fmt(<<L("Get-ChildItem -Recurse -File | Select-String -Pattern '"), GS(1), L("' | Select-Object Path, LineNumber, Line")>>)],
        "Find text in files", TRUE, "search")
  >>

\* a variant of the process table in which the kill rule is flagged safe
setup_process_patterns_safe_kill ==
  <<
    CommandPattern("show (?:running )?process(?:es)?",
        [cmd |-> Fmt(<<L("tasklist")>>),
         powershell |-> Fmt(<<L("Get-Process | Select-Object Id, ProcessName, CPU, WorkingSet | Format-Table -AutoSize")>>)],
        "List running processes", TRUE, "process"),
    CommandPattern("kill (?:process )?(.+)",
        [cmd |-> Fmt(<<L("taskkill /F /IM \""), GS(1), L("\"")>>),
         powershell |-> Fmt(<<L("Stop-Process -Name '"), GS(1), L("' -Force")>>)],
        "Kill process", TRUE, "process")
  >>

\* _setup_process_patterns (lines 368-389)
setup_process_patterns ==
  <<
    CommandPattern("show (?:running )?process(?:es)?",
        [cmd |-> Fmt(<<L("tasklist")>>),
         powershell |-> Fmt(<<L("Get-Process | Select-Object Id, ProcessName, CPU, WorkingSet | Format-Table -AutoSize")>>)],
        "List running processes", TRUE, "process"),
    CommandPattern("kill (?:process )?(.+)",
        [cmd |-> Fmt(<<L("taskkill /F /IM \""), GS(1), L("\"")>>),
         powershell |-> Fmt(<<L("Stop-Process -Name '"), GS(1), L("' -Force")>>)],
        "Kill process", FALSE, "process")
  >>

\* _setup_environment_patterns (lines 391-412)
setup_environment_patterns ==
  <<
    CommandPattern("set (?:variable )?(.+) (?:to|equal|=) (.+)",
        [cmd |-> Fmt(<<L("set "), GS(1), L("="), GS(2)>>),
         powershell |-> Fmt(<<L("$env:"), GS(1), L(" = '"), GS(2), L("'")>>)],
        "Set environment variable", TRUE, "environment"),
    CommandPattern("show variable (.+)",
        [cmd |-> Fmt(<<L("echo %"), GS(1), L("%")>>),
         powershell |-> Fmt(<<L("$env:"), GS(1)>>)],
        "Show environment variable", TRUE, "environment")
  >>

\* _setup_network_patterns (lines 414-435)
setup_network_patterns ==
  <<
    CommandPattern("ping (.+)",
        [cmd |-> Fmt(<<L("ping "), GS(1)>>),
         powershell |-> Fmt(<<L("Test-Connection -ComputerName "), GS(1), L(" -Count 4")>>)],
        "Ping host", TRUE, "network"),
    CommandPattern("trace route to (.+)",
        [cmd |-> Fmt(<<L("tracert "), GS(1)>>),
         powershell |-> Fmt(<<L("Test-NetConnection -ComputerName "), GS(1), L(" -TraceRoute")>>)],
        "Trace route", TRUE, "network")
  >>

\* _setup_file_property_patterns (lines 437-468)
setup_file_property_patterns ==
  <<
    CommandPattern("show hidden files",
        [cmd |-> Fmt(<<L("dir /ah")>>),
         powershell |-> Fmt(<<L("Get-ChildItem -Hidden | Select-Object Name, Attributes")>>)],
        "List hidden files", TRUE, "properties"),
    CommandPattern("show (?:file )?(?:attributes|props|properties) (.+)",
        [cmd |-> Fmt(<<L("attrib "), GS(1)>>),
         powershell |-> Fmt(<<L("Get-ItemProperty -Path '"), GS(1), L("' | Select-Object *")>>)],
        "Show file attributes", TRUE, "properties"),
    CommandPattern("hide (?:file )?(.+)",
        [cmd |-> Fmt(<<L("attrib +h "), GS(1)>>),
         powershell |-> Fmt(<<L("$file = Get-Item '"), GS(1), L("'; $file.Attributes = $file.Attributes -bor [System.IO.FileAttributes]::Hidden")>>)],
        "Hide file", TRUE, "properties")
  >>

\* _setup_text_file_patterns (lines 470-492)
setup_text_file_patterns ==
  <<
    CommandPattern("(?:show|read|display|cat) file (.+)",
        [cmd |-> Fmt(<<L("type "), GS(1)>>),
         powershell |-> Fmt(<<L("Get-Content -Path '"), GS(1), L("'")>>)],
        "Display file contents", TRUE, "text"),
    CommandPattern("(?:edit|open) (?:file )?(.+)",
        [cmd |-> Fmt(<<L("notepad "), GS(1)>>),
         powershell |-> Fmt(<<L("notepad.exe '"), GS(1), L("'")>>)],
        "Edit file", TRUE, "text")
  >>

\* a variant of the alias table whose ls rule is anchored at the start only
setup_alias_patterns_open_ls ==
  <<
    CommandPattern("^ls",
        [cmd |-> Fmt(<<L("dir")>>),
         powershell |-> Fmt(<<L("Get-ChildItem")>>)],
        "List files (alias)", TRUE, "alias"),
    CommandPattern("^pwd$",
        [cmd |-> Fmt(<<L("cd")>>),
         powershell |-> Fmt(<<L("Get-Location")>>)],
        "Show directory (alias)", TRUE, "alias"),
    CommandPattern("^mkdir (.+)$",
        [cmd |-> Fmt(<<L("mkdir "), G(1)>>),
         powershell |-> Fmt(<<L("New-Item -ItemType Directory -Path '"), G(1), L("'")>>)],
        "Make directory (alias)", TRUE, "alias"),
    CommandPattern("^rm (.+)$",
        [cmd |-> Fmt(<<L("del \""), G(1), L("\"")>>),
         powershell |-> Fmt(<<L("Remove-Item -Path '"), G(1), L("' -Force")>>)],
        "Remove file (alias)", FALSE, "alias"),
    CommandPattern("^gci$",
        [cmd |-> Fmt(<<L("dir")>>),
         powershell |-> Fmt(<<L("Get-ChildItem")>>)],
        "Get-ChildItem alias", TRUE, "alias"),
    CommandPattern("^gl$",
        [cmd |-> Fmt(<<L("cd")>>),
         powershell |-> Fmt(<<L("Get-Location")>>)],
        "Get-Location alias", TRUE, "alias")
  >>

\* _setup_alias_patterns (lines 494-558)
setup_alias_patterns ==
  <<
    CommandPattern("^ls$",
        [cmd |-> Fmt(<<L("dir")>>),
         powershell |-> Fmt(<<L("Get-ChildItem")>>)],
        "List files (alias)", TRUE, "alias"),
    CommandPattern("^pwd$",
        [cmd |-> Fmt(<<L("cd")>>),
         powershell |-> Fmt(<<L("Get-Location")>>)],
        "Show directory (alias)", TRUE, "alias"),
    CommandPattern("^mkdir (.+)$",
        [cmd |-> Fmt(<<L("mkdir "), G(1)>>),
         powershell |-> Fmt(<<L("New-Item -ItemType Directory -Path '"), G(1), L("'")>>)],
        "Make directory (alias)", TRUE, "alias"),
    CommandPattern("^rm (.+)$",
        [cmd |-> Fmt(<<L("del \""), G(1), L("\"")>>),
         powershell |-> Fmt(<<L("Remove-Item -Path '"), G(1), L("' -Force")>>)],
        "Remove file (alias)", FALSE, "alias"),
    CommandPattern("^gci$",
        [cmd |-> Fmt(<<L("dir")>>),
         powershell |-> Fmt(<<L("Get-ChildItem")>>)],
        "Get-ChildItem alias", TRUE, "alias"),
    CommandPattern("^gl$",
        [cmd |-> Fmt(<<L("cd")>>),
         powershell |-> Fmt(<<L("Get-Location")>>)],
        "Get-Location alias", TRUE, "alias")
  >>

\* a variant of the table with the text-file rules ahead of the
\* file-property rules
setup_patterns_text_first ==
    setup_navigation_patterns \o setup_file_operation_patterns
        \o setup_system_patterns \o setup_search_patterns
        \o setup_process_patterns \o setup_environment_patterns
        \o setup_network_patterns \o setup_text_file_patterns
        \o setup_file_property_patterns \o setup_alias_patterns

\* a variant of the table with the bare "list files" rule ahead of the
\* sort-qualified one
setup_patterns_bare_first ==
    LET BareFirst(files) == <<files[2], files[1]>> \o SubSeq(files, 3, Len(files))
    IN setup_navigation_patterns \o BareFirst(setup_file_operation_patterns)
        \o setup_system_patterns \o setup_search_patterns
        \o setup_process_patterns \o setup_environment_patterns
        \o setup_network_patterns \o setup_file_property_patterns
        \o setup_text_file_patterns \o setup_alias_patterns

\* _setup_patterns (lines 127-139): the built-in table, in this order
setup_patterns ==
    setup_navigation_patterns \o setup_file_operation_patterns
        \o setup_system_patterns \o setup_search_patterns
        \o setup_process_patterns \o setup_environment_patterns
        \o setup_network_patterns \o setup_file_property_patterns
        \o setup_text_file_patterns \o setup_alias_patterns

(***************************************************************************)
(* The configuration file.  A JSON value whose type the loader depends on  *)
(* (the document, its "patterns" member, each entry) carries its kind:     *)
(* "object", "array", "string", "number" or "null"; an object's members    *)
(* are a record and dict.get(k, d) is Get(p, k, d).  Python's None is      *)
(* written as the empty string where the code only tests the value for     *)
(* truth.                                                                  *)
(***************************************************************************)
None == ""

Get(p, k, d) == IF k \in DOMAIN p THEN p[k] ELSE d

Json(kind, v) == [kind |-> kind, v |-> v]

JObject(members) == Json("object", members)

JArray(items) == Json("array", items)

JString == Json("string", <<>>)

JNumber == Json("number", <<>>)

JNull == Json("null", <<>>)

ConfigFile(exists, readable, valid_json, json) ==
    [exists |-> exists, readable |-> readable, valid_json |-> valid_json, json |-> json]

Document(json) == ConfigFile(TRUE, TRUE, TRUE, json)

NoConfigFile == ConfigFile(FALSE, FALSE, FALSE, JNull)

\* open() fails
UnreadableConfig == ConfigFile(TRUE, FALSE, FALSE, JNull)

\* json.load raises JSONDecodeError
InvalidJsonConfig == ConfigFile(TRUE, TRUE, FALSE, JNull)

GreetConfig ==
    Document(JObject([patterns |-> JArray(<<
        JObject([pattern |-> "greet (.+)", command |-> "echo hi {1}", safe |-> TRUE])
    >>)]))

\* entries whose generators fail or yield nothing for some inputs
FallThroughConfig ==
    Document(JObject([patterns |-> JArray(<<
        JObject([pattern |-> "sel(.*)", cmd_command |-> "{1}",
                 ps_command |-> "Write-Output {1}", description |-> "Select"]),
        JObject([pattern |-> "sel", command |-> "echo sel", safe |-> FALSE,
                 category |-> "danger", description |-> "Drop selection"]),
        JObject([pattern |-> "x(y)?(z)", command |-> "{1}{2}"]),
        JObject([pattern |-> "x.", cmd_command |-> "echo x", ps_command |-> "Write-Output x"])
    >>)]))

\* a catch-all entry
CatchAllConfig ==
    Document(JObject([patterns |-> JArray(<<
        JObject([pattern |-> ".*", command |-> "echo fallback", description |-> "Fallback"])
    >>)]))

\* entries the loader has to skip, among entries it accepts; the group of
\* the second accepted entry holds a placeholder
SkippingConfig ==
    Document(JObject([patterns |-> JArray(<<
        JObject([command |-> "echo no pattern"]),
        JObject([pattern |-> "list (.+)", command |-> "echo custom {1}"]),
        JString,
        JObject([pattern |-> "greet (.+)"]),
        JObject([pattern |-> "greet (", command |-> "echo broken"]),
        JObject([pattern |-> "(.+) and (.+)", command |-> "echo {1} {2}",
                 category |-> "files"]),
        JObject([pattern |-> "greet (.+)", ps_command |-> "Write-Output {1}"]),
        JObject([pattern |-> "greet (.+)", command |-> "echo hi {1}", safe |-> TRUE])
    >>)]))

\* documents that are not an object with a "patterns" array
NoPatternsConfig == Document(JObject([version |-> JNumber]))

ArrayConfig == Document(JArray(<<>>))

NullConfig == Document(JNull)

NullPatternsConfig == Document(JObject([patterns |-> JNull]))

NumberPatternsConfig == Document(JObject([patterns |-> JNumber]))

StringPatternsConfig == Document(JObject([patterns |-> JString]))

ObjectPatternsConfig == Document(JObject([patterns |-> JObject([pattern |-> "greet (.+)"])]))

\* the files a parser can be given as its config_file, by path
FileSystem(path) ==
    CASE path = "greet.json" -> GreetConfig
      [] path = "fallthrough.json" -> FallThroughConfig
      [] path = "catchall.json" -> CatchAllConfig
      [] path = "skipping.json" -> SkippingConfig
      [] path = "unreadable.json" -> UnreadableConfig
      [] path = "invalid.json" -> InvalidJsonConfig
      [] path = "nopatterns.json" -> NoPatternsConfig
      [] path = "array.json" -> ArrayConfig
      [] path = "null.json" -> NullConfig
      [] path = "nullpatterns.json" -> NullPatternsConfig
      [] path = "numberpatterns.json" -> NumberPatternsConfig
      [] path = "stringpatterns.json" -> StringPatternsConfig
      [] path = "objectpatterns.json" -> ObjectPatternsConfig
      [] OTHER -> NoConfigFile

\* the config_file of a parser that is used through execute
ExecConfigs == {"cmd_nlp_config.json", "fallthrough.json", "catchall.json"}

\* the config_file a parser is constructed with
Configs ==
    ExecConfigs \cup
    {"greet.json", "skipping.json", "unreadable.json", "invalid.json", "nopatterns.json",
     "array.json", "null.json", "nullpatterns.json", "numberpatterns.json",
     "stringpatterns.json", "objectpatterns.json"}

\* CommandPattern.match (lines 53-54)
match(rule, text) ==
    IF text \in DOMAIN rule.pattern.matches THEN rule.pattern.matches[text] ELSE NoMatch

\* CommandPattern.get_command (lines 56-65): "" stands for None
get_command(rule, shell, m) ==
    LET Caught(result) == IF result.ok THEN result.value ELSE None
    IN IF shell \in DOMAIN rule.generators
       THEN Caught(generate(rule.generators[shell], m))
       ELSE None

(***************************************************************************)
(* _load_custom_patterns (lines 560-608)                                   *)
(***************************************************************************)
Or(a, b) == IF a # None THEN a ELSE b

\* the body of the loop for one entry (lines 571-598): the rules it appends
\* (one or none); an exception in it is caught (line 599) and the entry is
\* skipped
load_entry(p) ==
    IF p.kind # "object" THEN <<>>
    ELSE LET pattern == Get(p.v, "pattern", None)
             cmd_template == Or(Get(p.v, "cmd_command", None), Get(p.v, "command", None))
             ps_template == Or(Get(p.v, "ps_command", None), cmd_template)
             description == Get(p.v, "description", "Custom pattern")
             safe == Get(p.v, "safe", TRUE)
             category == Get(p.v, "category", "custom")
         IN IF pattern = None \/ cmd_template = None THEN <<>>
            ELSE IF ~re_compile(pattern).ok THEN <<>>
            ELSE <<CommandPattern(pattern,
                       [cmd |-> Template(cmd_template), powershell |-> Template(ps_template)],
                       description, safe, category)>>

\* a variant of the loop that gives up at the first entry it has to skip
RECURSIVE load_entries_stop(_, _)
load_entries_stop(entries, k) ==
    IF k > Len(entries) \/ load_entry(entries[k]) = <<>> THEN <<>>
    ELSE load_entry(entries[k]) \o load_entries_stop(entries, k + 1)

\* the loop of lines 570-601 from entry k on
RECURSIVE load_entries(_, _)
load_entries(entries, k) ==
    IF k > Len(entries) THEN <<>>
    ELSE load_entry(entries[k]) \o load_entries(entries, k + 1)

Loaded(rules) == [raised |-> FALSE, rules |-> rules]

\* an exception that leaves _load_custom_patterns, and so __init__
LoadRaised == [raised |-> TRUE, rules |-> <<>>]

\* the loop of line 570 over the "patterns" member: a string or an object
\* yields strings, which are skipped as entries; a number or null is not
\* iterable
load_patterns(custom_patterns) ==
    CASE custom_patterns.kind = "array" -> Loaded(load_entries(custom_patterns.v, 1))
      [] custom_patterns.kind \in {"string", "object"} -> Loaded(<<>>)
      [] OTHER -> LoadRaised

\* the rules appended to the table; only JSONDecodeError and IOError are
\* caught around the whole load (lines 603-608)
load_custom_patterns(file) ==
    IF ~file.exists THEN Loaded(<<>>)
    ELSE IF ~file.readable \/ ~file.valid_json THEN Loaded(<<>>)
    ELSE IF file.json.kind # "object" THEN LoadRaised
    ELSE load_patterns(Get(file.json.v, "patterns", JArray(<<>>)))

(***************************************************************************)
(* The parser object and its environment                                   *)
(***************************************************************************)
VARIABLES
    config_file,    \* self.config_file: the path of the configuration file
    constructed,    \* __init__ returned: there is a parser to call
    patterns,       \* self.patterns: the Rule Table
    shell_mode,     \* self.shell_mode
    dry_run,        \* self.dry_run
    log,            \* the lines of self.log_file, oldest first
    log_writable,   \* whether open(self.log_file, "a") succeeds
    runner_calls,   \* how often subprocess.run has been called
    prompts,        \* how often the confirmation prompt has been shown
    calls,          \* how many operations have been called
    parsed_calls,   \* how many execute calls had an input that parsed
    last,           \* the most recent operation: its arguments and results
    stats,          \* what the most recent show_stats printed
    args,           \* the command line of main: --interactive, --auto-confirm
    loop,           \* where the interactive loop of main is
    lines_read,     \* the lines the interactive prompt has returned
    dispatched      \* the texts the interactive loop has passed to execute

vars == <<config_file, constructed, patterns, shell_mode, dry_run, log, log_writable, runner_calls, prompts,
          calls, parsed_calls, last, stats, args, loop, lines_read, dispatched>>

\* the state of main's interactive loop
loop_vars == <<args, loop, lines_read, dispatched>>

\* a variant that gives up when the first matching rule generates nothing
RECURSIVE parse_from_stop(_, _, _, _)
parse_from_stop(rules, k, shell, text) ==
    LET Matched(m) ==
            IF m.matched
            THEN [command |-> get_command(rules[k], shell, m),
                  pattern |-> IF get_command(rules[k], shell, m) # None THEN k ELSE 0]
            ELSE parse_from_stop(rules, k + 1, shell, text)
    IN IF k > Len(rules) THEN [command |-> None, pattern |-> 0]
       ELSE Matched(match(rules[k], text))

\* CMDNLPParser.parse (lines 639-658), the loop from rule k on
RECURSIVE parse_from(_, _, _, _)
parse_from(rules, k, shell, text) ==
    LET Generated(command) ==
            IF command # None THEN [command |-> command, pattern |-> k]
            ELSE parse_from(rules, k + 1, shell, text)
        Matched(m) ==
            IF m.matched THEN Generated(get_command(rules[k], shell, m))
            ELSE parse_from(rules, k + 1, shell, text)
    IN IF k > Len(rules) THEN [command |-> None, pattern |-> 0]
       ELSE Matched(match(rules[k], text))

\* the result is (command, pattern); pattern is the rule's place in the
\* table, 0 for None
parse_rules(rules, shell, text) == parse_from(rules, 1, shell, strip(text))

parse(text) == parse_rules(patterns, shell_mode, text)

\* the inner loop of parse_all (lines 676-679) over the shells from j on
RECURSIVE parse_all_shells(_, _, _, _)
parse_all_shells(rules, k, m, j) ==
    LET Generated(command, rest) ==
            IF command # None
            THEN (Shells[j] :> [command |-> command, pattern |-> k]) @@ rest
            ELSE rest
    IN IF j > Len(Shells) THEN <<>>
       ELSE Generated(get_command(rules[k], Shells[j], m),
                      parse_all_shells(rules, k, m, j + 1))

\* CMDNLPParser.parse_all (lines 660-682), the loop from rule k on
RECURSIVE parse_all_from(_, _, _)
parse_all_from(rules, k, text) ==
    LET Matched(m) ==
            IF m.matched THEN parse_all_shells(rules, k, m, 1)
            ELSE parse_all_from(rules, k + 1, text)
    IN IF k > Len(rules) THEN <<>>
       ELSE Matched(match(rules[k], text))

\* a variant that scans the table once for each shell
parse_all_per_shell(rules, text) ==
    [shell \in {sh \in {CMD, POWERSHELL} : parse_rules(rules, sh, text).command # None}
        |-> parse_rules(rules, shell, text)]

parse_all_rules(rules, text) == parse_all_from(rules, 1, strip(text))

parse_all(text) == parse_all_rules(patterns, text)

(***************************************************************************)
(* The History Log                                                         *)
(***************************************************************************)
\* the entry log_command builds (lines 687-696); the timestamp is the
\* number of the call that wrote it
Entry(now, input_text, command, pattern, executed, shell) ==
    [timestamp |-> now, input |-> input_text, command |-> command,
     shell |-> Or(shell, shell_mode),
     pattern_description |-> pattern.description, category |-> pattern.category,
     safe |-> pattern.safe, executed |-> executed]

\* a variant that does not write an entry for the input of the newest entry
log_command_dedupe(now, input_text, command, pattern, executed, shell) ==
    IF log_writable /\ (log = <<>> \/ log[Len(log)].input # input_text)
    THEN Append(log, Entry(now, input_text, command, pattern, executed, shell))
    ELSE log

\* a variant that opens the file for writing instead of appending
log_command_rewrite(now, input_text, command, pattern, executed, shell) ==
    IF log_writable
    THEN <<Entry(now, input_text, command, pattern, executed, shell)>>
    ELSE log

\* a variant that writes the rule's safe flag into the executed field
log_command_safe_as_executed(now, input_text, command, pattern, executed, shell) ==
    IF log_writable
    THEN Append(log, Entry(now, input_text, command, pattern, pattern.safe, shell))
    ELSE log

\* a variant whose write never fails
log_command_always(now, input_text, command, pattern, executed, shell) ==
    Append(log, Entry(now, input_text, command, pattern, executed, shell))

\* log_command (lines 684-705): the log file afterwards; a failed write is
\* reported and leaves the file as it was
log_command(now, input_text, command, pattern, executed, shell) ==
    IF log_writable
    THEN Append(log, Entry(now, input_text, command, pattern, executed, shell))
    ELSE log

(***************************************************************************)
(* show_stats.  A dict of counts is the sequence of its <<key, count>>     *)
(* items in insertion order, the order in which Python iterates it.        *)
(***************************************************************************)
\* d[key] = d.get(key, 0) + 1
Incr(d, key) ==
    IF \E i \in DOMAIN d : d[i][1] = key
    THEN [i \in DOMAIN d |-> IF d[i][1] = key THEN <<key, d[i][2] + 1>> ELSE d[i]]
    ELSE Append(d, <<key, 1>>)

\* the stats dict before the first line (lines 822-830)
NewStats ==
    [total |-> 0, executed |-> 0, safe |-> 0, destructive |-> 0,
     categories |-> <<>>, patterns |-> <<>>, shells |-> <<>>]

\* a variant that counts an entry as destructive only if it was executed
tally_executed_destructive(st, entry) ==
    [total |-> st.total + 1,
     executed |-> IF entry.executed THEN st.executed + 1 ELSE st.executed,
     safe |-> IF entry.safe THEN st.safe + 1 ELSE st.safe,
     destructive |-> IF ~entry.safe /\ entry.executed THEN st.destructive + 1 ELSE st.destructive,
     categories |-> Incr(st.categories, entry.category),
     patterns |-> Incr(st.patterns, entry.pattern_description),
     shells |-> Incr(st.shells, entry.shell)]

\* the body of the loop for one well-formed entry (lines 841-856)
tally(st, entry) ==
    [total |-> st.total + 1,
     executed |-> IF entry.executed THEN st.executed + 1 ELSE st.executed,
     safe |-> IF entry.safe THEN st.safe + 1 ELSE st.safe,
     destructive |-> IF entry.safe THEN st.destructive ELSE st.destructive + 1,
     categories |-> Incr(st.categories, entry.category),
     patterns |-> Incr(st.patterns, entry.pattern_description),
     shells |-> Incr(st.shells, entry.shell)]

\* the loop over the lines of the file (lines 834-856), from line k on
RECURSIVE tally_from(_, _, _)
tally_from(lines, k, st) ==
    IF k > Len(lines) THEN st ELSE tally_from(lines, k + 1, tally(st, lines[k]))

\* an item put into a sequence sorted by falling count, behind the items
\* that have at least its count
Inserted(sorted, item) ==
    LET before == {i \in DOMAIN sorted : \A j \in 1..i : sorted[j][2] >= item[2]}
    IN SubSeq(sorted, 1, Cardinality(before)) \o <<item>>
          \o SubSeq(sorted, Cardinality(before) + 1, Len(sorted))

\* sorted(d.items(), key=lambda x: x[1], reverse=True): the sort is stable
RECURSIVE sorted_by_count(_, _, _)
sorted_by_count(items, k, sorted) ==
    IF k > Len(items) THEN sorted
    ELSE sorted_by_count(items, k + 1, Inserted(sorted, items[k]))

\* sorted_patterns[:5]
First5(items) == SubSeq(items, 1, IF Len(items) < 5 THEN Len(items) ELSE 5)

\* what show_stats prints from the stats dict (lines 861-882)
Report(st) ==
    [printed |-> "stats", total |-> st.total, executed |-> st.executed, safe |-> st.safe,
     destructive |-> st.destructive, shells |-> st.shells,
     categories |-> sorted_by_count(st.categories, 1, <<>>),
     patterns |-> First5(sorted_by_count(st.patterns, 1, <<>>))]

\* a report without figures
NoReport(printed) ==
    [printed |-> printed, total |-> 0, executed |-> 0, safe |-> 0, destructive |-> 0,
     shells |-> <<>>, categories |-> <<>>, patterns |-> <<>>]

\* show_stats (lines 816-882): what it prints.  The log file exists once an
\* entry has been written to it; readable says whether open() succeeds.
show_stats(lines, readable) ==
    IF lines = <<>> THEN NoReport("No command history yet")
    ELSE IF ~readable THEN NoReport("Error reading log file")
    ELSE Report(tally_from(lines, 1, NewStats))

(***************************************************************************)
(* execute and the command runner                                          *)
(***************************************************************************)
\* what subprocess.run can do with the shell's executable
RunnerOutcomes == {"exit_zero", "exit_nonzero", "not_found", "error"}

\* a variant for which a missing shell is a failure
run_command_strict(command, outcome) == outcome = "exit_zero"

\* _run_command (lines 753-802): the value returned
run_command(command, outcome) ==
    CASE outcome = "exit_zero" -> TRUE
      [] outcome = "exit_nonzero" -> FALSE
      [] outcome = "not_found" -> TRUE
      [] OTHER -> FALSE

\* a variant that asks whatever auto_confirm says
needs_confirmation_unsafe(pattern, auto_confirm) == ~pattern.safe

\* line 731: the confirmation prompt is due
needs_confirmation(pattern, auto_confirm) == ~pattern.safe /\ ~auto_confirm

\* a variant that also takes "yes"
confirmed_yes(answer) == lower(strip(answer)) \in {"y", "yes"}

\* lines 733-734: the answer read from the prompt confirms
confirmed(answer) == lower(strip(answer)) = "y"

Outcome(ret, command, pattern, prompted, logged, ran) ==
    [ret |-> ret, command |-> command, pattern |-> pattern, prompted |-> prompted,
     logged |-> logged, ran |-> ran]

\* a variant that runs the command in dry-run mode too
execute_no_dry_run(text, auto_confirm, answer, outcome) ==
    LET Dispatch(p) ==
            IF p.command = None
            THEN Outcome(FALSE, None, 0, FALSE, FALSE, FALSE)
            ELSE LET prompted == needs_confirmation(patterns[p.pattern], auto_confirm) IN
                 IF prompted /\ ~confirmed(answer)
                 THEN Outcome(FALSE, p.command, p.pattern, TRUE, TRUE, FALSE)
                 ELSE Outcome(run_command(p.command, outcome), p.command, p.pattern,
                              prompted, FALSE, TRUE)
    IN Dispatch(parse(text))

\* a variant that tests the dry-run flag before the confirmation gate
execute_dry_run_first(text, auto_confirm, answer, outcome) ==
    LET Dispatch(p) ==
            IF p.command = None
            THEN Outcome(FALSE, None, 0, FALSE, FALSE, FALSE)
            ELSE IF dry_run
                 THEN Outcome(TRUE, p.command, p.pattern, FALSE, TRUE, FALSE)
                 ELSE LET prompted == needs_confirmation(patterns[p.pattern], auto_confirm) IN
                      IF prompted /\ ~confirmed(answer)
                      THEN Outcome(FALSE, p.command, p.pattern, TRUE, TRUE, FALSE)
                      ELSE Outcome(run_command(p.command, outcome), p.command, p.pattern,
                                   prompted, FALSE, TRUE)
    IN Dispatch(parse(text))

\* a variant that reports success for an input it does not understand
execute_unparsed_true(text, auto_confirm, answer, outcome) ==
    LET Dispatch(p) ==
            IF p.command = None
            THEN Outcome(TRUE, None, 0, FALSE, FALSE, FALSE)
            ELSE LET prompted == needs_confirmation(patterns[p.pattern], auto_confirm) IN
                 IF prompted /\ ~confirmed(answer)
                 THEN Outcome(FALSE, p.command, p.pattern, TRUE, TRUE, FALSE)
                 ELSE IF dry_run
                      THEN Outcome(TRUE, p.command, p.pattern, prompted, TRUE, FALSE)
                      ELSE Outcome(run_command(p.command, outcome), p.command, p.pattern,
                                   prompted, FALSE, TRUE)
    IN Dispatch(parse(text))

\* execute (lines 707-751): the value returned, the (command, pattern)
\* parsed, whether the prompt was shown, whether log_command was called,
\* whether the runner was called.  answer is what input() returns if asked,
\* outcome what the runner does if called.
execute(text, auto_confirm, answer, outcome) ==
    LET Dispatch(p) ==
            IF p.command = None
            THEN Outcome(FALSE, None, 0, FALSE, FALSE, FALSE)
            ELSE LET prompted == needs_confirmation(patterns[p.pattern], auto_confirm) IN
                 IF prompted /\ ~confirmed(answer)
                 THEN Outcome(FALSE, p.command, p.pattern, TRUE, TRUE, FALSE)
                 ELSE IF dry_run
                      THEN Outcome(TRUE, p.command, p.pattern, prompted, TRUE, FALSE)
                      ELSE Outcome(run_command(p.command, outcome), p.command, p.pattern,
                                   prompted, FALSE, TRUE)
    IN Dispatch(parse(text))

(***************************************************************************)
(* Bounds and inputs of the operations                                     *)
(***************************************************************************)
MaxCalls == 2

ExecInputs ==
    {"", "xyz123", "go to", "delete file", "list files", "delete file readme.txt", "sel"}

Answers == {"y", " Y ", "n", "yes", ""}

NotAsked == "<not asked>"

NotRun == "<not run>"

Call(op, text, auto_confirm, answer, outcome, ret, command, pattern, prompted, ran, all, log_before) ==
    [op |-> op, text |-> text, auto_confirm |-> auto_confirm, answer |-> answer,
     outcome |-> outcome, ret |-> ret, command |-> command, pattern |-> pattern,
     prompted |-> prompted, ran |-> ran, all |-> all, log_before |-> log_before]

NoCall == Call("none", "", FALSE, NotAsked, NotRun, FALSE, None, 0, FALSE, FALSE, <<>>, 0)

\* __init__ (lines 73-91) with one of the configuration files: the table
Parser(files) ==
    LET Built(loaded) ==
            /\ patterns = setup_patterns \o loaded.rules
            /\ constructed = ~loaded.raised
    IN /\ config_file \in files
       /\ Built(load_custom_patterns(FileSystem(config_file)))

\* no operation has been called yet
Fresh ==
    /\ runner_calls = 0
    /\ prompts = 0
    /\ calls = 0
    /\ parsed_calls = 0
    /\ last = NoCall
    /\ stats = NoReport("")

\* main is not in interactive mode
Batch ==
    /\ args = [interactive |-> FALSE, auto_confirm |-> FALSE]
    /\ loop = "off"
    /\ lines_read = <<>>
    /\ dispatched = <<>>

\* __init__ (lines 73-91) with an explicit shell and one of the configuration
\* files, followed by no call yet; the log file is new
Start(files, writable) ==
    /\ Parser(files)
    /\ shell_mode \in {CMD, POWERSHELL}
    /\ dry_run \in BOOLEAN
    /\ log = <<>>
    /\ log_writable = writable
    /\ Fresh
    /\ Batch

Init == Start(ExecConfigs, TRUE)

InitAny == Start(Configs, TRUE)

InitUnwritable == Start(ExecConfigs, FALSE)

\* one call of execute: what it does to the parser and its environment
Executed(text, auto_confirm, answer, outcome) ==
    LET Returned(e) ==
            /\ calls' = calls + 1
            /\ parsed_calls' = IF e.command # None THEN parsed_calls + 1 ELSE parsed_calls
            /\ prompts' = IF e.prompted THEN prompts + 1 ELSE prompts
            /\ runner_calls' = IF e.ran THEN runner_calls + 1 ELSE runner_calls
            /\ log' = IF e.logged
                      THEN log_command(calls + 1, text, e.command, patterns[e.pattern],
                                       FALSE, None)
                      ELSE log
            /\ last' = Call("execute", text, auto_confirm,
                            IF e.prompted THEN answer ELSE NotAsked,
                            IF e.ran THEN outcome ELSE NotRun,
                            e.ret, e.command, e.pattern, e.prompted, e.ran, <<>>, Len(log))
    IN /\ constructed
       /\ Returned(execute(text, auto_confirm, answer, outcome))
       /\ UNCHANGED <<config_file, constructed, patterns, shell_mode, dry_run, log_writable,
                      stats>>

\* one call of execute
Execute(text, auto_confirm, answer, outcome) ==
    /\ calls < MaxCalls
    /\ Executed(text, auto_confirm, answer, outcome)
    /\ UNCHANGED loop_vars

\* an operation that reads the parser and its files and changes neither
Reads(op, text, all) ==
    /\ constructed
    /\ calls' = calls + 1
    /\ last' = Call(op, text, FALSE, NotAsked, NotRun, FALSE, None, 0, FALSE, FALSE, all,
                    Len(log))
    /\ UNCHANGED <<config_file, constructed, patterns, shell_mode, dry_run, log,
                   log_writable, runner_calls, prompts, parsed_calls>>

\* one call of parse
Parse(text) ==
    LET Returned(p) ==
            last' = Call("parse", text, FALSE, NotAsked, NotRun, FALSE, p.command,
                         p.pattern, FALSE, FALSE, <<>>, Len(log))
    IN /\ constructed
       /\ calls < MaxCalls
       /\ calls' = calls + 1
       /\ Returned(parse(text))
       /\ UNCHANGED <<config_file, constructed, patterns, shell_mode, dry_run, log,
                      log_writable, runner_calls, prompts, parsed_calls, stats>>
       /\ UNCHANGED loop_vars

\* one call of parse_all
ParseAll(text) ==
    /\ calls < MaxCalls
    /\ Reads("parse_all", text, parse_all(text))
    /\ UNCHANGED stats
    /\ UNCHANGED loop_vars

\* one call of show_stats
ShowStats(readable) ==
    /\ calls < MaxCalls
    /\ Reads("show_stats", "", <<>>)
    /\ stats' = show_stats(log, readable)
    /\ UNCHANGED loop_vars

\* get_patterns_by_category (lines 884-891): for each category of the table
\* the places of its rules, in table order; the table is only read
get_patterns_by_category(rules) ==
    [category \in {rules[k].category : k \in DOMAIN rules} |->
        SelectSeq([k \in DOMAIN rules |-> k], LAMBDA k : rules[k].category = category)]

\* a variant that moves the alias rules to the front of the table it prints
ShowPatterns_alias_first ==
    LET IsAlias(rule) == rule.category = "alias"
        NotAlias(rule) == rule.category # "alias"
    IN /\ calls < MaxCalls
       /\ constructed
       /\ calls' = calls + 1
       /\ last' = Call("show_patterns", "", FALSE, NotAsked, NotRun, FALSE, None, 0, FALSE,
                       FALSE, <<>>, Len(log))
       /\ patterns' = SelectSeq(patterns, IsAlias) \o SelectSeq(patterns, NotAlias)
       /\ UNCHANGED <<config_file, constructed, shell_mode, dry_run, log, log_writable,
                      runner_calls, prompts, parsed_calls, stats>>
       /\ UNCHANGED loop_vars

\* one call of show_patterns (lines 893-905), which prints the table
ShowPatterns ==
    /\ calls < MaxCalls
    /\ Reads("show_patterns", "", <<>>)
    /\ UNCHANGED stats
    /\ UNCHANGED loop_vars

ExecuteStep ==
    \E text \in ExecInputs, auto_confirm \in BOOLEAN, answer \in Answers,
       outcome \in RunnerOutcomes : Execute(text, auto_confirm, answer, outcome)

ParseStep == \E text \in ExecInputs : Parse(text)

ParseAllStep == \E text \in ExecInputs : ParseAll(text)

ShowStatsStep == \E readable \in BOOLEAN : ShowStats(readable)

Next == ExecuteStep \/ ParseStep \/ ParseAllStep \/ ShowStatsStep \/ ShowPatterns

\* a parser used through execute, parse, parse_all, show_stats, show_patterns
Spec == Init /\ [][Next]_vars

ParseAny == last.op = "none" /\ \E text \in Inputs : Parse(text)

ParseAllAny == last.op = "none" /\ \E text \in Inputs : ParseAll(text)

NextParse == ParseAny \/ ParseAllAny

\* a parser whose log file cannot be written
SpecUnwritable == InitUnwritable /\ [][Next]_vars

\* a freshly constructed parser asked to parse one text
SpecParse == InitAny /\ [][NextParse]_vars

(***************************************************************************)
(* The interactive loop of main (lines 982-1003)                           *)
(***************************************************************************)
MaxLines == 3

\* what the prompt returns
Lines ==
    {"exit", " QUIT ", "Exit", "", "  ", "exit now", "list files", "delete file readme.txt",
     "xyz123"}

\* a variant that knows the two words in lower case only
is_exit_exact(text) == text \in {"exit", "quit"}

\* line 992: text.lower() in ["exit", "quit"]
is_exit(text) == lower(text) \in {"exit", "quit"}

\* main with --interactive has constructed the parser and prompts
InitInteractive ==
    /\ Parser({"cmd_nlp_config.json"})
    /\ shell_mode \in {CMD, POWERSHELL}
    /\ dry_run \in BOOLEAN
    /\ log = <<>>
    /\ log_writable = TRUE
    /\ Fresh
    /\ args \in [interactive : {TRUE}, auto_confirm : BOOLEAN]
    /\ loop = "prompting"
    /\ lines_read = <<>>
    /\ dispatched = <<>>

\* a step of the loop that calls nothing
Passed(op, line) ==
    /\ last' = Call(op, line, FALSE, NotAsked, NotRun, FALSE, None, 0, FALSE, FALSE, <<>>,
                    Len(log))
    /\ UNCHANGED <<config_file, constructed, patterns, shell_mode, dry_run, log,
                   log_writable, runner_calls, prompts, calls, parsed_calls, stats,
                   dispatched>>

\* one pass through the loop body (lines 983-999) with the line the prompt
\* returned
ReadLine(line, answer, outcome) ==
    LET Body(text) ==
            IF is_exit(text) THEN loop' = "left" /\ Passed("exit", line)
            ELSE IF text = "" THEN loop' = loop /\ Passed("blank", line)
            ELSE /\ Executed(text, args.auto_confirm, answer, outcome)
                 /\ dispatched' = Append(dispatched, text)
                 /\ loop' = loop
    IN /\ loop = "prompting"
       /\ Len(lines_read) < MaxLines
       /\ lines_read' = Append(lines_read, line)
       /\ Body(strip(line))
       /\ UNCHANGED args

\* Ctrl-C at the prompt (lines 1000-1003) leaves the loop
Interrupt ==
    /\ loop = "prompting"
    /\ loop' = "left"
    /\ Passed("interrupt", "")
    /\ UNCHANGED <<args, lines_read>>

\* end of input at the prompt: EOFError is not caught and ends main
EndOfInput ==
    /\ loop = "prompting"
    /\ loop' = "eof"
    /\ Passed("eof", "")
    /\ UNCHANGED <<args, lines_read>>

ReadLineStep ==
    \E line \in Lines, answer \in Answers, outcome \in RunnerOutcomes :
        ReadLine(line, answer, outcome)

NextInteractive == ReadLineStep \/ Interrupt \/ EndOfInput

\* main --interactive
SpecInteractive == InitInteractive /\ [][NextInteractive]_vars

(***************************************************************************)
(* show_stats on a log left by earlier runs                                *)
(***************************************************************************)
MaxEntries == 6

\* a well-formed line of the log file
HistoryEntry(input, command, shell, description, category, safe, executed) ==
    [timestamp |-> 0, input |-> input, command |-> command, shell |-> shell,
     pattern_description |-> description, category |-> category, safe |-> safe,
     executed |-> executed]

\* lines with six descriptions, four categories, both shells and every
\* combination of the two flags
HistoryEntries ==
    {HistoryEntry("list files", "dir", CMD, "List files", "files", TRUE, FALSE),
     HistoryEntry("delete file a", "del \"a\"", CMD, "Delete file", "files", FALSE, FALSE),
     HistoryEntry("kill notepad", "Stop-Process -Name 'notepad' -Force", POWERSHELL,
                  "Kill process", "process", FALSE, TRUE),
     HistoryEntry("ls", "Get-ChildItem", POWERSHELL, "List files (alias)", "alias", TRUE, TRUE),
     HistoryEntry("pwd", "cd", CMD, "Show directory (alias)", "alias", TRUE, FALSE),
     HistoryEntry("greet world", "echo hi world", CMD, "Custom pattern", "custom", TRUE, FALSE)}

\* the log files of up to MaxEntries lines
Logs == UNION {[1..n -> HistoryEntries] : n \in 0..MaxEntries}

\* main with --stats has constructed the parser; the log file is there
InitStats ==
    /\ Parser({"cmd_nlp_config.json"})
    /\ shell_mode = CMD
    /\ dry_run = FALSE
    /\ log \in Logs
    /\ log_writable = TRUE
    /\ Fresh
    /\ Batch

ShowStatsOnce == last.op = "none" /\ ShowStatsStep

\* main --stats
SpecStats == InitStats /\ [][ShowStatsOnce]_vars

(***************************************************************************)
(* Properties of execute                                                   *)
(***************************************************************************)
\* an answer that is 'y' after trimming and lower-casing
Affirmative(answer) == lower(strip(answer)) = "y"

\* the most recent operation was an execute whose input parsed
ExecutedParsed == last.op = "execute" /\ last.pattern # 0

\* the rule the most recent operation selected
LastRule == patterns[last.pattern]

\* the most recent operation appended exactly one entry, with executed=false
AppendedOneNotExecuted ==
    /\ Len(log) = last.log_before + 1
    /\ log[Len(log)].executed = FALSE
    /\ log[Len(log)].input = last.text
    /\ log[Len(log)].command = last.command

\* C1: an execute without auto_confirm whose input parses to a rule with
\* safe=false and whose prompt is answered with anything but 'y' (trimmed,
\* lower-cased) is rejected: the runner is not invoked, exactly one entry with
\* executed=false is appended and False is returned, in dry-run and real mode
C1_ConfirmationGate ==
    (ExecutedParsed /\ ~LastRule.safe /\ ~last.auto_confirm /\ ~Affirmative(last.answer))
        => (~last.ran /\ last.ret = FALSE /\ AppendedOneNotExecuted)

C1_Witness ==
    /\ ExecutedParsed /\ ~LastRule.safe /\ ~last.auto_confirm
    /\ ~dry_run /\ last.prompted /\ last.answer = "yes"
    /\ last.ret = FALSE /\ Len(log) = last.log_before + 1

\* C2: after any sequence of execute calls the number of entries in the
\* log equals the number of calls whose input parsed to a command, the calls
\* that went through the command runner included
C2_OneEntryPerParsedCall == Len(log) = parsed_calls

\* the passes through the confirmation gate: a safe rule, auto_confirm set,
\* or an affirmative answer
GatePassed ==
    LastRule.safe \/ last.auto_confirm \/ (last.prompted /\ Affirmative(last.answer))

C4_OnlyThroughGate ==
    ExecutedParsed =>
        /\ last.prompted <=> (~LastRule.safe /\ ~last.auto_confirm)
        /\ (last.ran /\ ~LastRule.safe)
              => (last.auto_confirm \/ (last.prompted /\ Affirmative(last.answer)))
        /\ (LastRule.safe \/ last.auto_confirm)
              => (~last.prompted /\ (last.ran \/ Len(log) = last.log_before + 1))

C4_Witness ==
    /\ ExecutedParsed /\ ~LastRule.safe /\ last.auto_confirm
    /\ ~last.prompted /\ last.ran /\ prompts = 0 /\ runner_calls = 2

\* the inputs the built-in table does not understand
Unparseable == {"xyz123", "", "go to", "delete file"}

\* C5: an execute whose input does not parse writes no entry, shows no
\* prompt, does not invoke the runner and returns False; the log is
\* unchanged; with the built-in table alone "xyz123", "", "go to" and
\* "delete file" are such inputs
C5_UnparseableShortCircuits ==
    /\ (last.op = "execute" /\ last.command = None)
          => (~last.prompted /\ ~last.ran /\ last.ret = FALSE /\ last.pattern = 0
              /\ Len(log) = last.log_before)
    /\ (last.op = "execute" /\ config_file = "cmd_nlp_config.json"
        /\ last.text \in Unparseable)
          => last.command = None

C5_Witness ==
    /\ last.op = "execute" /\ last.command = None /\ last.text = "go to"
    /\ last.ret = FALSE /\ Len(log) = 1 /\ last.log_before = 1

(***************************************************************************)
(* Properties of parse and parse_all                                       *)
(***************************************************************************)
\* the least number of a non-empty set of numbers
Least(S) == CHOOSE k \in S : \A j \in S : k <= j

\* the text of the most recent operation, trimmed
Trimmed == strip(last.text)

\* the rules whose matcher succeeds on the trimmed text
Matching == {k \in DOMAIN patterns : match(patterns[k], Trimmed).matched}

\* what rule k generates for the shell from its match of the trimmed text
Generates(k, shell) == get_command(patterns[k], shell, match(patterns[k], Trimmed))

\* the rules that match and generate a non-empty command for the shell
Qualifying(shell) == {k \in Matching : Generates(k, shell) # None}

\* C6: parse returns the command and the rule of the lowest-index rule whose
\* matcher succeeds on the trimmed text and whose generator for the active
\* shell yields a non-empty string; a matching rule whose generator raises
\* or yields nothing is passed over; (none, none) is returned exactly when
\* no rule qualifies
C6_FirstMatchWins ==
    last.op = "parse" =>
        IF Qualifying(shell_mode) = {}
        THEN last.command = None /\ last.pattern = 0
        ELSE /\ last.pattern = Least(Qualifying(shell_mode))
             /\ last.command = Generates(last.pattern, shell_mode)
             /\ last.command # None

\* a rule that matched but raised, and a later rule returned
C6_Witness ==
    /\ last.op = "parse" /\ last.text = "xz" /\ last.command = "echo x"
    /\ \E k \in Matching : k < last.pattern /\ Generates(k, shell_mode) = None

\* the inputs of the dual-shell test
DualShellExamples == {"go to downloads", "list files", "delete file test.txt"}

\* C7: every pair in the result of parse_all refers to one rule, the first
\* rule whose matcher succeeds, and holds what that rule generates for the
\* pair's shell; for the examples matched by a built-in rule the result has
\* a CMD entry and a PowerShell entry
C7_ParseAllSingleRule ==
    last.op = "parse_all" =>
        /\ Matching = {} => last.all = <<>>
        /\ Matching # {} =>
              /\ DOMAIN last.all = {sh \in {CMD, POWERSHELL} : Generates(Least(Matching), sh) # None}
              /\ \A sh \in DOMAIN last.all :
                    /\ last.all[sh].pattern = Least(Matching)
                    /\ last.all[sh].command = Generates(Least(Matching), sh)
        /\ last.text \in DualShellExamples => DOMAIN last.all = {CMD, POWERSHELL}

\* the first matching rule generates for one shell only, later rules match
C7_Witness ==
    /\ last.op = "parse_all" /\ last.text = "sel"
    /\ DOMAIN last.all = {POWERSHELL} /\ Cardinality(Matching) = 2

\* the number of rules _setup_patterns adds before any custom rule
BuiltinCount == 37

\* the built-in rules, which come first in the table
Builtin == 1..BuiltinCount

\* the token of a pure-alias rule, by the rule's description
AliasToken ==
    [d \in {"List files (alias)", "Show directory (alias)", "Get-ChildItem alias", "Get-Location alias"} |->
        CASE d = "List files (alias)" -> "ls"
          [] d = "Show directory (alias)" -> "pwd"
          [] d = "Get-ChildItem alias" -> "gci"
          [] OTHER -> "gl"]

\* the pure-alias rules of the built-in table
PureAlias == {k \in Builtin : patterns[k].description \in DOMAIN AliasToken}

\* s is a prefix of t
IsPrefix(s, t) == Len(s) <= Len(t) /\ SubSeq(t, 1, Len(s)) = s

\* C8: a pure-alias rule (ls, pwd, gci, gl) matches exactly when the trimmed
\* input is its token in any letter case; "lsx" matches no rule of the
\* built-in table; a rule outside the alias category that matches a text
\* matches every text that begins with it
C8_AliasFullyAnchored ==
    LET Matched(k) == DOMAIN patterns[k].pattern.matches
        Anchoring(T) ==
            /\ \A k \in PureAlias :
                  Matched(k) = {t \in T : lower(t) = AliasToken[patterns[k].description]}
            /\ \A k \in Builtin : patterns[k].category # "alias" =>
                  \A t \in Matched(k) : \A u \in T : IsPrefix(t, u) => u \in Matched(k)
    IN /\ Cardinality(PureAlias) = 4
       /\ Anchoring(Texts)
       /\ \A k \in Builtin : ~match(patterns[k], "lsx").matched
       /\ last.op = "parse" /\ last.text = "lsx" /\ Len(patterns) = BuiltinCount =>
             last.command = None /\ last.pattern = 0

\* "lsx" was parsed against the built-in table and nothing matched, while
\* "ls" matches the ls rule and "cleaner" matches the clear rule by prefix
C8_Witness ==
    /\ last.op = "parse" /\ last.text = "lsx" /\ last.command = None
    /\ Len(patterns) = BuiltinCount
    /\ \E k \in PureAlias : match(patterns[k], "ls").matched /\ match(patterns[k], "LS").matched
    /\ \E k \in Builtin : match(patterns[k], "clear").matched /\ match(patterns[k], "cleaner").matched

\* the descriptions of the destructive built-in rules: delete file, delete
\* folder/directory, move, kill, rm
Destructive ==
    {"Delete file", "Delete directory", "Move file", "Kill process", "Remove file (alias)"}

\* the flags of the built-in table: exactly the five destructive rules are unsafe
BuiltinFlags ==
    /\ \A k \in Builtin : patterns[k].safe <=> patterns[k].description \notin Destructive
    /\ Cardinality({k \in Builtin : ~patterns[k].safe}) = 5

\* the statement as written: parse never returns an unsafe rule other than
\* the five destructive built-in rules
C9_OnlyFiveUnsafe ==
    /\ BuiltinFlags
    /\ last.op = "parse" /\ last.pattern # 0 /\ ~patterns[last.pattern].safe =>
          last.pattern \in Builtin /\ patterns[last.pattern].description \in Destructive

\* C9: exactly the built-in rules delete file, delete folder/directory, move,
\* kill and the rm alias carry safe=false and every other built-in rule
\* carries safe=true; parse returns a built-in rule with safe=false only if
\* one of those five is the first qualifying rule (a custom rule carries the
\* flag its configuration entry gives it)
C9_BuiltinSafetyFlags ==
    /\ BuiltinFlags
    /\ last.op = "parse" /\ last.pattern \in Builtin /\ ~patterns[last.pattern].safe =>
          /\ patterns[last.pattern].description \in Destructive
          /\ last.pattern = Least(Qualifying(shell_mode))

\* parse returned the kill rule, which is unsafe
C9_Witness ==
    /\ last.op = "parse" /\ last.text = "kill notepad" /\ last.pattern \in Builtin
    /\ patterns[last.pattern].description = "Kill process" /\ ~patterns[last.pattern].safe

\* C10: parse and parse_all on the empty string or on a whitespace-only
\* string return no match, whatever rules the table holds
C10_NoMatchOnEmpty ==
    Trimmed = "" =>
        /\ last.op = "parse" => last.command = None /\ last.pattern = 0
        /\ last.op = "parse_all" => last.all = <<>>

(***************************************************************************)
(* Properties of the construction of the table                             *)
(***************************************************************************)
\* the patterns of the built-in rules in the order the code adds them
BuiltinSources ==
    <<"go to (.+)", "go back", "show (current directory|current path)", "where am i",
      "list files (?:sorted|sort) by (size|name|date)", "list files",
      "create (folder|directory) (.+)", "delete (?:the )?file (.+)",
      "delete (?:the )?(folder|directory) (.+)", "copy (.+) (?:to|into) (.+)",
      "move (.+) (?:to|into) (.+)", "open (.+)", "clear|clean", "show disk space",
      "show ip address", "show my ip", "show date", "show time",
      "find files (?:named|containing|with) (.+)", "find text (.+) (?:in|within) files",
      "show (?:running )?process(?:es)?", "kill (?:process )?(.+)",
      "set (?:variable )?(.+) (?:to|equal|=) (.+)", "show variable (.+)", "ping (.+)",
      "trace route to (.+)", "show hidden files",
      "show (?:file )?(?:attributes|props|properties) (.+)", "hide (?:file )?(.+)",
      "(?:show|read|display|cat) file (.+)", "(?:edit|open) (?:file )?(.+)",
      "^ls$", "^pwd$", "^mkdir (.+)$", "^rm (.+)$", "^gci$", "^gl$">>

\* the categories of the built-in table in the order of their rules
CategoryOrder ==
    <<"navigation", "files", "system", "search", "process", "environment", "network",
      "properties", "text", "alias">>

\* the place of a category in that order
Rank(category) == CHOOSE r \in DOMAIN CategoryOrder : CategoryOrder[r] = category

\* the members of the "patterns" array of a well-formed configuration file
Entries(file) ==
    IF file.exists /\ file.readable /\ file.valid_json /\ file.json.kind = "object"
    THEN LET custom == Get(file.json.v, "patterns", JArray(<<>>))
         IN IF custom.kind = "array" THEN custom.v ELSE <<>>
    ELSE <<>>

\* a configuration entry with a pattern that compiles and a CMD template
WellFormed(p) ==
    /\ p.kind = "object"
    /\ Get(p.v, "pattern", None) # None
    /\ Get(p.v, "cmd_command", None) # None \/ Get(p.v, "command", None) # None
    /\ re_compile(p.v.pattern).ok

\* the custom part of the table is the well-formed entries in file order
CustomPartIs(accepted) ==
    /\ Len(patterns) = BuiltinCount + Len(accepted)
    /\ \A i \in DOMAIN accepted :
          /\ patterns[BuiltinCount + i].pattern.source = accepted[i].v.pattern
          /\ patterns[BuiltinCount + i].description = Get(accepted[i].v, "description", "Custom pattern")
          /\ patterns[BuiltinCount + i].safe = Get(accepted[i].v, "safe", TRUE)
          /\ patterns[BuiltinCount + i].category = Get(accepted[i].v, "category", "custom")

\* C11: after startup the table is the built-in rules, category by category
\* in the order navigation, files, system, search, process, environment,
\* network, properties, text, alias, followed by the custom rules in file
\* order, entries without a pattern or a CMD template or otherwise malformed
\* being skipped; parse never selects a custom rule for an input for which a
\* built-in rule matches and generates
C11_TableConstruction ==
    constructed =>
        /\ Len(patterns) >= BuiltinCount
        /\ [k \in Builtin |-> patterns[k].pattern.source] = BuiltinSources
        /\ {patterns[k].category : k \in Builtin} = {CategoryOrder[r] : r \in DOMAIN CategoryOrder}
        /\ \A j, k \in Builtin : j < k => Rank(patterns[j].category) <= Rank(patterns[k].category)
        /\ CustomPartIs(SelectSeq(Entries(FileSystem(config_file)), WellFormed))
        /\ last.op = "parse" /\ Qualifying(shell_mode) \cap Builtin # {} => last.pattern \in Builtin

\* the file has entries that are skipped and entries that load, and parse
\* selected a built-in rule where a loaded custom rule matches as well
C11_Witness ==
    /\ constructed /\ config_file = "skipping.json" /\ Len(patterns) = BuiltinCount + 3
    /\ last.op = "parse" /\ last.text = "list files" /\ last.pattern \in Builtin
    /\ \E k \in Matching : k > BuiltinCount /\ Generates(k, shell_mode) # None

\* the file cannot be read, or its content is not a JSON object with a
\* "patterns" array
NotAConfiguration(file) ==
    /\ file.exists
    /\ \/ ~file.readable
       \/ ~file.valid_json
       \/ file.json.kind # "object"
       \/ "patterns" \notin DOMAIN file.json.v
       \/ file.json.v.patterns.kind # "array"

\* C12: when the configuration file is unreadable, is malformed JSON, or is
\* JSON that is not an object with a "patterns" array, construction of the
\* parser completes and the table is exactly the built-in table
C12_LoadErrorNotFatal ==
    NotAConfiguration(FileSystem(config_file)) =>
        /\ constructed
        /\ Len(patterns) = BuiltinCount
        /\ [k \in Builtin |-> patterns[k].pattern.source] = BuiltinSources

(***************************************************************************)
(* Properties of custom templates                                          *)
(***************************************************************************)
\* the template with every placeholder {i} of a captured group replaced by
\* the group's text, the inserted text being left as it is
RECURSIVE Verbatim(_, _, _)
Verbatim(template, pos, m) ==
    LET Placeholder(i) == "{" \o IntToStr(i) \o "}"
        Here == {i \in DOMAIN m.spans : ~GroupIsNone(m, i) /\ StartsAt(template, pos, Placeholder(i))}
    IN IF pos > Len(template) THEN ""
       ELSE IF Here # {}
            THEN LET i == CHOOSE j \in Here : TRUE
                 IN group(m, i) \o Verbatim(template, pos + Len(Placeholder(i)), m)
            ELSE At(template, pos) \o Verbatim(template, pos + 1, m)

\* the configuration entry from which custom rule k was loaded
EntryOf(k) == SelectSeq(Entries(FileSystem(config_file)), WellFormed)[k - BuiltinCount].v

\* the CMD template of a configuration entry
CmdTemplate(entry) ==
    IF Get(entry, "cmd_command", None) # None THEN entry.cmd_command ELSE entry.command

\* the template of a configuration entry for a shell
TemplateFor(entry, shell) ==
    IF shell = POWERSHELL /\ Get(entry, "ps_command", None) # None
    THEN entry.ps_command
    ELSE CmdTemplate(entry)

\* C13: the command a custom rule generates is its template with each
\* placeholder {i} replaced by the verbatim text of group i, the inserted
\* text not being read as a placeholder; "greet (.+)" with "echo hi {1}"
\* turns "greet world" into "echo hi world"; without a ps_command the
\* PowerShell command is the CMD command
C13_VerbatimSubstitution ==
    /\ last.op = "parse" /\ last.pattern > BuiltinCount =>
          last.command = Verbatim(TemplateFor(EntryOf(last.pattern), shell_mode), 1,
                                  match(patterns[last.pattern], Trimmed))
    /\ last.op = "parse" /\ last.text = "greet world" /\ config_file = "greet.json" =>
          last.command = "echo hi world"
    /\ last.op = "parse_all" /\ Matching # {} /\ Least(Matching) > BuiltinCount =>
          ("ps_command" \notin DOMAIN EntryOf(Least(Matching)) /\ DOMAIN last.all # {} =>
              /\ DOMAIN last.all = {CMD, POWERSHELL}
              /\ last.all[CMD].command = last.all[POWERSHELL].command)

Rejected == ExecutedParsed /\ last.prompted /\ ~Affirmative(last.answer)

\* the most recent execute was a dry run that passed the gate
DryRun == ExecutedParsed /\ dry_run /\ GatePassed

ReadOnly == {"parse", "parse_all", "show_stats", "show_patterns"}

\* C16: over any sequence of parse, parse_all, execute, show_stats and
\* show_patterns calls the log before a step is a prefix of the log after
\* it, a step appends at most one entry, and parse, parse_all, show_stats
\* and show_patterns append nothing
C16_AppendOnly ==
    [][/\ Len(log') \in {Len(log), Len(log) + 1}
       /\ SubSeq(log', 1, Len(log)) = log
       /\ last'.op \in ReadOnly => log' = log]_vars

\* an entry was written and a show_stats after it left the log alone
C16_Witness ==
    /\ last.op = "show_stats" /\ Len(log) = 1 /\ last.log_before = 1
    /\ stats.printed = "stats" /\ stats.total = 1

(***************************************************************************)
(* Properties of the interactive loop                                      *)
(***************************************************************************)
\* the line is "exit" or "quit" in some letter case, once trimmed
Leaves(line) == lower(strip(line)) \in {"exit", "quit"}

\* the line is empty or white space
Blank(line) == strip(line) = ""

\* the lines in front of the first one that leaves, or all of them
RECURSIVE UntilLeave(_)
UntilLeave(lines) ==
    IF lines = <<>> \/ Leaves(Head(lines)) THEN <<>>
    ELSE <<Head(lines)>> \o UntilLeave(Tail(lines))

\* the lines trimmed, blank ones dropped
RECURSIVE Dispatchable(_)
Dispatchable(lines) ==
    IF lines = <<>> THEN <<>>
    ELSE IF Blank(Head(lines)) THEN Dispatchable(Tail(lines))
    ELSE <<strip(Head(lines))>> \o Dispatchable(Tail(lines))

\* C17: a line that is "exit" or "quit" in any letter case after trimming
\* ends the loop, is not dispatched and is the last line read; a blank or
\* white-space line is not dispatched and writes no log entry, and the loop
\* goes on; every other line is passed to execute exactly once, in the
\* order of the input
C17_InteractiveLoop ==
    /\ dispatched = Dispatchable(UntilLeave(lines_read))
    /\ calls = Len(dispatched)
    /\ \A i \in DOMAIN lines_read :
          Leaves(lines_read[i]) => i = Len(lines_read) /\ loop = "left"
    /\ last.op = "blank" => loop = "prompting" /\ Len(log) = last.log_before
    /\ last.op = "exit" => loop = "left" /\ Len(log) = last.log_before

\* a blank line, then a command, then " QUIT ": one dispatch, loop left
C17_Witness ==
    /\ loop = "left" /\ last.op = "exit" /\ Len(lines_read) = 3
    /\ lines_read[1] = "  " /\ lines_read[3] = " QUIT "
    /\ dispatched = <<"delete file readme.txt">> /\ prompts = 1

(***************************************************************************)
(* Properties of show_stats                                                *)
(***************************************************************************)
\* the number of log entries that have the value under the key
Tally(key, value) == Cardinality({i \in DOMAIN log : log[i][key] = value})

\* the values the log entries have under the key
Values(key) == {log[i][key] : i \in DOMAIN log}

\* the count a family of reported counts gives for a key; 0 if it has none
Reported(items, key) ==
    IF \E i \in DOMAIN items : items[i][1] = key
    THEN items[CHOOSE i \in DOMAIN items : items[i][1] = key][2]
    ELSE 0

\* the sum of a family of reported counts
RECURSIVE Sum(_)
Sum(items) == IF items = <<>> THEN 0 ELSE Head(items)[2] + Sum(Tail(items))

\* the four totals are the tallies over the log
TotalsAreTallies ==
    /\ stats.total = Len(log)
    /\ stats.executed = Tally("executed", TRUE)
    /\ stats.safe = Tally("safe", TRUE)
    /\ stats.destructive = Tally("safe", FALSE)
    /\ stats.safe + stats.destructive = stats.total

\* a family of reported counts is the tallies under the key
FamilyIsTallies(items, key) ==
    /\ {items[i][1] : i \in DOMAIN items} = Values(key)
    /\ \A v \in Values(key) : Reported(items, v) = Tally(key, v)
    /\ Sum(items) = stats.total

Examples ==
    <<
      <<"go to downloads", "go to (.+)",
        "cd Downloads", "Set-Location">>,
      <<"go back", "go back",
        "cd ..", "Set-Location ..">>,
      <<"show current directory", "show (current directory|current path)",
        "cd", "Get-Location">>,
      <<"where am i", "where am i",
        "cd", "Get-Location">>,
      <<"list files", "list files",
        "dir", "Get-ChildItem">>,
      <<"list files sorted by size", "list files (?:sorted|sort) by (size|name|date)",
        "dir /O-S", "Sort-Object Length">>,
      <<"list files sorted by name", "list files (?:sorted|sort) by (size|name|date)",
        "dir /O-N", "Sort-Object Name">>,
      <<"create folder my-project", "create (folder|directory) (.+)",
        "mkdir my-project", "New-Item -ItemType Directory">>,
      <<"create directory test", "create (folder|directory) (.+)",
        "mkdir test", "New-Item -ItemType Directory">>,
      <<"delete file readme.txt", "delete (?:the )?file (.+)",
        "del \"readme.txt\"", "Remove-Item">>,
      <<"delete folder old-stuff", "delete (?:the )?(folder|directory) (.+)",
        "rmdir /s /q \"old-stuff\"", "Remove-Item">>,
      <<"open notepad", "open (.+)",
        "start notepad", "Start-Process">>,
      <<"clear", "clear|clean",
        "cls", "Clear-Host">>,
      <<"show disk space", "show disk space",
        "wmic logicaldisk", "Get-PSDrive">>,
      <<"show ip address", "show ip address",
        "ipconfig", "Get-NetIPAddress">>,
      <<"show my ip", "show my ip",
        "ipconfig", "Get-NetIPAddress">>,
      <<"show date", "show date",
        "date /t", "Get-Date">>,
      <<"show time", "show time",
        "time /t", "Get-Date">>,
      <<"find files containing config", "find files (?:named|containing|with) (.+)",
        "dir /s /b | findstr", "Get-ChildItem -Recurse">>,
      <<"find text error in files", "find text (.+) (?:in|within) files",
        "findstr /s /i", "Select-String">>,
      <<"copy file1.txt to backup", "copy (.+) (?:to|into) (.+)",
        "copy \"file1.txt\" \"backup\"", "Copy-Item">>,
      <<"move file.txt to archive", "move (.+) (?:to|into) (.+)",
        "move \"file.txt\" \"archive\"", "Move-Item">>,
      <<"show running processes", "show (?:running )?process(?:es)?",
        "tasklist", "Get-Process">>,
      <<"kill process notepad", "kill (?:process )?(.+)",
        "taskkill /F /IM \"notepad\"", "Stop-Process">>,
      <<"set variable PATH to C:\\bin", "set (?:variable )?(.+) (?:to|equal|=) (.+)",
        "set PATH=C:\\bin", "$env:PATH">>,
      <<"show variable PATH", "show variable (.+)",
        "echo %PATH%", "$env:PATH">>,
      <<"ping google.com", "ping (.+)",
        "ping google.com", "Test-Connection">>,
      <<"trace route to google.com", "trace route to (.+)",
        "tracert google.com", "Test-NetConnection">>,
      <<"read file readme.txt", "(?:show|read|display|cat) file (.+)",
        "type readme.txt", "Get-Content">>,
      <<"edit file config.txt", "(?:edit|open) (?:file )?(.+)",
        "notepad config.txt", "notepad.exe">>,
      <<"show file attributes readme.txt", "show (?:file )?(?:attributes|props|properties) (.+)",
        "attrib readme.txt", "Get-ItemProperty">>,
      <<"hide file secret.txt", "hide (?:file )?(.+)",
        "attrib +h secret.txt", "[System.IO.FileAttributes]::Hidden">>,
      <<"show hidden files", "show hidden files",
        "dir /ah", "Get-ChildItem -Hidden">>,
      <<"ls", "^ls$",
        "dir", "Get-ChildItem">>,
      <<"pwd", "^pwd$",
        "cd", "Get-Location">>,
      <<"mkdir testdir", "^mkdir (.+)$",
        "mkdir testdir", "New-Item -ItemType Directory">>,
      <<"rm file.txt", "^rm (.+)$",
        "del \"file.txt\"", "Remove-Item">>
    >>

\* the case of the test tables with the given input
ExampleOf(text) == Examples[CHOOSE i \in DOMAIN Examples : Examples[i][1] = text]

\* C19: for every example phrase of the test tables parse selects the rule
\* the phrase is meant for, in the CMD and in the PowerShell dialect: that
\* rule is the first one to match and its command holds the expected text;
\* "show file attributes readme.txt" goes to the file-properties rule, not
\* to the display-file rule
C19_ExampleRouting ==
    (last.op = "parse" /\ \E i \in DOMAIN Examples : Examples[i][1] = last.text) =>
        /\ last.pattern = Least(Matching)
        /\ last.pattern \in Builtin
        /\ patterns[last.pattern].pattern.source = ExampleOf(last.text)[2]
        /\ Contains(last.command, ExampleOf(last.text)[IF shell_mode = CMD THEN 3 ELSE 4])
        /\ last.text = "show file attributes readme.txt" =>
              /\ patterns[last.pattern].category = "properties"
              /\ patterns[last.pattern].description # "Display file contents"

\* the attributes phrase was parsed for PowerShell; the display-file rule
\* matches it as well, further down the table
C19_Witness ==
    /\ last.op = "parse" /\ last.text = "show file attributes readme.txt"
    /\ shell_mode = POWERSHELL
    /\ patterns[last.pattern].description = "Show file attributes"
    /\ \E k \in Matching : k > last.pattern /\ patterns[k].description = "Display file contents"

\* the text asks for a listing sorted by size, name or date
SortQualified(text) ==
    \E by \in {"list files sorted by ", "list files sort by "}, key \in {"size", "name", "date"} :
        IsPrefix(by \o key, lower(text))

\* the rules of the built-in table with the given description
Described(description) == {k \in Builtin : patterns[k].description = description}

\* C20: an input that begins with "list files sorted by" or "list files
\* sort by" and then size, name or date is dispatched to the sort-qualified
\* rule and not to the bare "list files" rule, in both dialects; the bare
\* rule is selected only when the sort-qualified rule does not match
C20_SortedBeforeBare ==
    last.op = "parse" =>
        /\ SortQualified(Trimmed) =>
              last.pattern \in Described("List files sorted") /\ last.command # None
        /\ last.pattern \in Described("List files") =>
              Described("List files sorted") \cap Matching = {}

\* a sorted listing in mixed case went to the sort-qualified rule although
\* the bare rule matches it too
C20_Witness ==
    /\ last.op = "parse" /\ last.text = "list files sort by DATE"
    /\ last.pattern \in Described("List files sorted")
    /\ Described("List files") \cap Matching # {}

(***************************************************************************)
(* Properties of repeated calls of execute                                 *)
(***************************************************************************)
\* two log entries agree in all fields but the timestamp
SameButTime(a, b) ==
    /\ a.input = b.input /\ a.command = b.command /\ a.shell = b.shell
    /\ a.pattern_description = b.pattern_description /\ a.category = b.category
    /\ a.safe = b.safe /\ a.executed = b.executed

\* two calls of execute were made with the same input, which parsed
SameInputTwice ==
    /\ calls = 2 /\ parsed_calls = 2 /\ last.op = "execute"
    /\ log # <<>> /\ log[1].input = last.text

\* C21: executing a parseable input twice under dry-run appends exactly two
\* entries that agree in input, command, shell, rule description, category
\* and safe flag and have executed=false; the runner is not invoked, and no
\* step changes the table, the active shell or the dry-run flag
C21_DryRunIdempotence ==
    /\ [](dry_run =>
            /\ runner_calls = 0
            /\ Len(log) = parsed_calls
            /\ SameInputTwice =>
                  /\ Len(log) = 2
                  /\ SameButTime(log[1], log[2])
                  /\ ~log[1].executed /\ ~log[2].executed
                  /\ log[2].input = last.text /\ log[2].command = last.command
                  /\ GatePassed => last.ret = TRUE)
    /\ [][patterns' = patterns /\ shell_mode' = shell_mode /\ dry_run' = dry_run]_vars

\* the same destructive input was dry-run twice, confirmed once at the
\* prompt and once by auto_confirm
C21_Witness ==
    /\ dry_run /\ SameInputTwice /\ last.text = "delete file readme.txt"
    /\ prompts = 1 /\ last.auto_confirm /\ last.ret = TRUE
    /\ Len(log) = 2 /\ log[1].timestamp = 1 /\ log[2].timestamp = 2 /\ runner_calls = 0

\* the most recent execute matched a destructive rule in dry-run mode without
\* auto_confirm
UnconfirmedDryRun ==
    ExecutedParsed /\ dry_run /\ ~LastRule.safe /\ ~last.auto_confirm

\* C22: in dry-run mode a match on a safe=false rule without auto_confirm is
\* prompted before the dry run; a non-affirmative answer returns False and
\* an affirmative one True, and one call of execute appends one entry only,
\* so that it is never both rejected and dry-run
C22_ConfirmationPrecedesDryRun ==
    /\ UnconfirmedDryRun =>
          /\ last.prompted
          /\ last.ret = Affirmative(last.answer)
          /\ ~last.ran
          /\ AppendedOneNotExecuted
    /\ last.op = "execute" => Len(log) <= last.log_before + 1

\* a destructive command was refused at the prompt of a dry run
C22_Witness ==
    /\ UnconfirmedDryRun /\ last.prompted /\ last.answer = "n"
    /\ last.ret = FALSE /\ Len(log) = last.log_before + 1

(***************************************************************************)
(* parse and parse_all                                                     *)
(***************************************************************************)
\* what parse returns for the text of the most recent operation when the
\* active shell is sh
ParseFor(sh) == parse_rules(patterns, sh, last.text)

\* C23: parse_all(text) has an entry for a shell exactly if parse(text) with
\* that shell as the target returns a command, and then the command and the
\* rule are the same
C23_ParseAllAgreesWithParse ==
    last.op = "parse_all" =>
        \A sh \in {CMD, POWERSHELL} :
            /\ sh \in DOMAIN last.all <=> ParseFor(sh).command # None
            /\ sh \in DOMAIN last.all =>
                  /\ last.all[sh].command = ParseFor(sh).command
                  /\ last.all[sh].pattern = ParseFor(sh).pattern

C24_RanWitness ==
    /\ ExecutedParsed /\ last.ran /\ last.ret = TRUE /\ calls = 2 /\ Len(log) = 1

(***************************************************************************)
(* The table after construction                                            *)
(***************************************************************************)
\* the grouping by category holds every rule of the table once, under its
\* own category and in table order
Partitioned(groups) ==
    /\ \A k \in DOMAIN patterns :
          Cardinality({i \in DOMAIN groups[patterns[k].category] :
                          groups[patterns[k].category][i] = k}) = 1
    /\ \A category \in DOMAIN groups :
          \A i, j \in DOMAIN groups[category] :
              /\ patterns[groups[category][i]].category = category
              /\ i < j => groups[category][i] < groups[category][j]

\* an earlier execute logged the text of the most recent parse or execute
\* with the command it parsed to
ParsedBefore(i) ==
    /\ last.op \in {"parse", "execute"}
    /\ i \in DOMAIN log /\ i <= last.log_before
    /\ log[i].input = last.text

\* C25: no call of parse, parse_all, execute, show_stats, show_patterns or
\* get_patterns_by_category changes the table, the active shell or the
\* dry-run flag; so a text parses to the same command and rule whenever it
\* is parsed in the lifetime of the parser
C25_TableImmutable ==
    /\ [][patterns' = patterns /\ shell_mode' = shell_mode /\ dry_run' = dry_run]_vars
    /\ [](\A i \in DOMAIN log :
              ParsedBefore(i) =>
                  /\ last.command = log[i].command
                  /\ LastRule.description = log[i].pattern_description
                  /\ LastRule.safe = log[i].safe)
    /\ [](last.op \in {"parse", "execute"} =>
              /\ last.command = parse(last.text).command
              /\ last.pattern = parse(last.text).pattern)
    /\ [](last.op = "show_patterns" => Partitioned(get_patterns_by_category(patterns)))

\* a text was parsed again after show_patterns or another call had been made
\* and an earlier execute had logged it
C25_Witness ==
    /\ calls = 2 /\ last.op = "parse" /\ last.text = "delete file readme.txt"
    /\ ParsedBefore(1) /\ last.command = log[1].command

====
